---- MODULE Spec2Model ----
(***************************************************************************)
(* ulog: asynchronous per-level logger (fallback-queue variant).           *)
(*                                                                         *)
(* Model of include/ulog/Logger.h, src/main.cpp (the Logger translation    *)
(* unit), src/ulog/LoggerFlushTask.cpp and ulog.h.  Threads are modelled   *)
(* with a program counter each; a Logger is a heap object addressed by an  *)
(* id, the singleton pointer global_ holds such an id or NULL.             *)
(***************************************************************************)
EXTENDS Integers, Sequences, FiniteSets, TLC

\* ------------------------------------------------------------------ bounds
MaxLoggers == 2     \* Logger objects that may ever be allocated
MaxProduce == 2     \* produce calls per producing thread
MaxFd      == 8     \* file descriptors 1..MaxFd
MaxIno     == 12    \* inodes 1..MaxIno (1 = stdout, 2 = stderr)
MaxFaults  == 2     \* failures the environment may inject into open and write

\* ------------------------------------------------------- program constants
LEVEL_COUNT == 7
BatchClamp  == 4096
TsBytes     == 23

NULL    == 0
NoPath  == ""
Levels  == 0 .. (LEVEL_COUNT - 1)
Trace    == 0
Debug    == 1
Info     == 2
Warn     == 3
Error    == 4
Critical == 5
Fatal    == 6

LoggerIds == 1 .. MaxLoggers
Fds       == 1 .. MaxFd
Inodes    == 1 .. MaxIno
Paths     == {"x"}
MaxIdx    == 3
FileNames == Paths \X (0 .. MaxIdx)

InitCallers == {"i1", "i2"}
Producers   == {"p1", "p2"}
FlushTasks  == {"t1", "t2"}
Stoppers    == {"s1"}
Threads     == InitCallers \cup Producers \cup FlushTasks \cup Stoppers

\* the flush task an init caller's co_spawn creates
TaskOf(c) == IF c = "i1" THEN "t1" ELSE "t2"

VARIABLES
    global,     \* Logger::global_ : NULL or a Logger id
    heap,       \* [LoggerIds -> {"free","live","deleted"}]
    L,          \* [LoggerIds -> Logger object]
    fs,         \* file system and descriptor table
    pc,         \* [Threads -> position]
    loc,        \* [Threads -> locals]
    world,      \* inputs of the run: configurations, tty, fault budget
    hist        \* history: what happened, for stating the properties

vars == <<global, heap, L, fs, pc, loc, world, hist>>

\* ------------------------------------------------------------ small helpers
Min(a, b) == IF a < b THEN a ELSE b

Take(s, n) == SubSeq(s, 1, Min(n, Len(s)))
Drop(s, n) == SubSeq(s, Min(n, Len(s)) + 1, Len(s))

SeqToSet(s) == {s[i] : i \in 1 .. Len(s)}

\* --------------------------------------------------------- bytes and strings
\* A byte is its value 0 .. 255.  A string is a run of pad bytes 'a' followed
\* by the bytes of b, so that a message of 64 KiB is a small value.
ChA       == 97
ChB       == 98
ChX       == 120
ChEq      == 61
ChSpace   == 32
LBrace    == 123
RBrace    == 125
LBracket  == 91
RBracket  == 93
Digit0    == 48
Digit9    == 57
Quote     == 34
Backslash == 92
Comma     == 44
Colon     == 58
Dash      == 45
Dot       == 46
LF        == 10
CR        == 13
TAB       == 9
ESC       == 27
ChM       == 109

kMaxLogLineBytes == 65536

MkStr(pad, b) == [pad |-> pad, b |-> b]
NoStr         == MkStr(0, <<>>)
StrLen(m)     == m.pad + Len(m.b)

\* data[i], i counted from zero
ByteAt(m, i) == IF i < m.pad THEN ChA ELSE m.b[i - m.pad + 1]

\* std::string::assign(data, data + n)
Assign(m, n) ==
    LET p == Min(m.pad, n)
    IN  MkStr(p, Take(m.b, n - p))

\* (c & 0xC0) == 0x80
IsCont(c) == c >= 128 /\ c <= 191

\* utf8_safe_size, the loop while (i > 0 && (data[i] & 0xC0) == 0x80) --i
RECURSIVE Utf8Back(_, _)
Utf8Back(data, i) ==
    IF i > 0 /\ IsCont(ByteAt(data, i)) THEN Utf8Back(data, i - 1) ELSE i

\* a cut that also drops the byte the backward loop stopped at
Utf8SafeSize_DropLead(data, len, max_bytes) ==
    LET i == Min(len, max_bytes)
    IN  IF i = 0 THEN 0 ELSE Utf8Back(data, i - 1)

\* utf8_safe_size
Utf8SafeSize(data, len, max_bytes) ==
    LET i == Min(len, max_bytes)
    IN  IF i = 0 THEN 0 ELSE Utf8Back(data, i - 1) + 1

\* snprintf(b, sizeof b, "%zu", idx)
RECURSIVE DecString(_)
DecString(n) ==
    IF n < 10 THEN <<Digit0 + n>>
    ELSE DecString(n \div 10) \o <<Digit0 + (n % 10)>>

IsDigit(c) == c >= Digit0 /\ c <= Digit9

\* fmt_build, the loop while (p < e && *p >= '0' && *p <= '9'): where it
\* stops, and the index it has read by then
RECURSIVE DigitsEnd(_, _)
DigitsEnd(fmt, p) ==
    IF p <= Len(fmt) /\ IsDigit(fmt[p]) THEN DigitsEnd(fmt, p + 1) ELSE p

RECURSIVE DecValue(_, _, _)
DecValue(fmt, from, to) ==
    IF to < from THEN 0
    ELSE DecValue(fmt, from, to - 1) * 10 + (fmt[to] - Digit0)

\* fmt_build: std::size_t want = has_idx ? idx : next_seq++ (the counter after)
NextSeqAfter_Always(has_idx, next_seq) == next_seq + 1

NextSeqAfter(has_idx, next_seq) == IF has_idx THEN next_seq ELSE next_seq + 1

\* fmt_build with arguments, the loop while (p < e); p and lit count from 1,
\* args[k + 1] is argument k as append_one renders it
RECURSIVE FmtLoop(_, _, _, _, _, _)
FmtLoop(fmt, args, p, lit, next_seq, out) ==
    LET e == Len(fmt) + 1
    IN  IF p >= e THEN out \o SubSeq(fmt, lit, e - 1)
        ELSE IF fmt[p] # LBrace THEN FmtLoop(fmt, args, p + 1, lit, next_seq, out)
        ELSE IF p + 1 < e /\ fmt[p + 1] = LBrace
        THEN FmtLoop(fmt, args, p + 2, p + 2, next_seq,
                     out \o SubSeq(fmt, lit, p - 1) \o <<LBrace>>)
        ELSE LET q       == DigitsEnd(fmt, p + 1)
                 has_idx == q > p + 1
                 idx     == DecValue(fmt, p + 1, q - 1)
             IN  IF q >= e \/ fmt[q] # RBrace
                 THEN FmtLoop(fmt, args, p + 1, lit, next_seq, out)
                 ELSE LET want == IF has_idx THEN idx ELSE next_seq
                          arg  == IF want < Len(args) THEN args[want + 1]
                                  ELSE <<LBrace>> \o (IF has_idx THEN DecString(idx) ELSE <<>>)
                                          \o <<RBrace>>
                      IN  FmtLoop(fmt, args, q + 1, q + 1,
                                  NextSeqAfter(has_idx, next_seq),
                                  out \o SubSeq(fmt, lit, p - 1) \o arg)

\* fmt_build: the overload without arguments appends the template as it is.
\* A template's leading run of 'a' is literal text either overload copies.
FmtBuild(fmt, args) ==
    IF args = <<>> THEN fmt
    ELSE MkStr(fmt.pad, FmtLoop(fmt.b, args, 1, 1, 0, <<>>))

\* pushf and enqueue_with_overflow: the message a produce call stores in its
\* LogEntry for the rendered message msg
StoredMsg(msg) ==
    LET len      == Utf8SafeSize(msg, StrLen(msg), kMaxLogLineBytes)
        safe_len == Utf8SafeSize(msg, len, kMaxLogLineBytes)
    IN  Assign(msg, safe_len)

\* ------------------------------------------------------------- file system
\* fdtab[fd] = inode the descriptor refers to, 0 when closed;
\* dir[name] = inode the name refers to, 0 when absent;
\* data[ino] = the chunks appended so far, one per successful write call.
FsInit ==
    [fdtab   |-> [fd \in Fds |-> IF fd \in {1, 2} THEN fd ELSE 0],
     dir     |-> [n \in FileNames |-> 0],
     data    |-> [i \in Inodes |-> <<>>],
     nextIno |-> 2]

IsAtty(fd) == fd \in {1, 2} /\ world.tty

FsLowestFd(f) ==
    IF \E fd \in 3 .. MaxFd : f.fdtab[fd] = 0
    THEN CHOOSE fd \in 3 .. MaxFd :
            f.fdtab[fd] = 0 /\ \A g \in 3 .. (fd - 1) : f.fdtab[g] # 0
    ELSE -1

\* ::open(path, O_CREAT | O_APPEND | O_WRONLY, 0644); ok = FALSE is a failure
\* the environment injects.
FsOpen(f, path, ok) ==
    LET fd     == FsLowestFd(f)
        exists == f.dir[<<path, 0>>] # 0
    IN  IF ~ok \/ fd = -1 \/ (~exists /\ f.nextIno >= MaxIno)
        THEN [fs |-> f, fd |-> -1]
        ELSE LET ino == IF exists THEN f.dir[<<path, 0>>] ELSE f.nextIno + 1
             IN  [fs |-> [f EXCEPT !.fdtab[fd] = ino,
                                   !.dir[<<path, 0>>] = ino,
                                   !.nextIno = IF exists THEN @ ELSE @ + 1],
                  fd |-> fd]

FsClose(f, fd) ==
    IF fd \in Fds THEN [f EXCEPT !.fdtab[fd] = 0] ELSE f

FsUnlink(f, name) ==
    IF name \in FileNames THEN [f EXCEPT !.dir[name] = 0] ELSE f

\* ::rename(src, dst): fails (no change) when src is absent.
FsRename(f, src, dst) ==
    IF src \in FileNames /\ dst \in FileNames /\ f.dir[src] # 0
    THEN [f EXCEPT !.dir[dst] = f.dir[src], !.dir[src] = 0]
    ELSE f

\* the byte count ::write(fd, buf, size) returns when the environment lets
\* `wr` bytes through: -1 on a closed descriptor.
FsWriteRet(f, fd, wr) ==
    IF fd \in Fds /\ f.fdtab[fd] # 0 THEN wr ELSE -1

FsWrite(f, fd, chunk, wr) ==
    IF FsWriteRet(f, fd, wr) > 0
    THEN [f EXCEPT !.data[f.fdtab[fd]] = Append(@, chunk)]
    ELSE f

\* ------------------------------------------------------------ configuration
\* ULogInit.  path[l] is the raw *_path member of level l (NoPath = nullptr).
MkCfg(path, cap, bs, maxsz, maxf, track, color) ==
    [path                |-> path,
     queue_capacity      |-> cap,
     batch_size          |-> bs,
     enable_color_stdout |-> color,
     max_file_size_bytes |-> maxsz,
     max_files           |-> maxf,
     json_mode           |-> FALSE,
     track_metrics       |-> track]

\* the same ULogInit with json_mode = true
MkJsonCfg(path, cap, bs, maxsz, maxf, track, color) ==
    [MkCfg(path, cap, bs, maxsz, maxf, track, color) EXCEPT !.json_mode = TRUE]

AllStdout == [l \in Levels |-> NoPath]
NoCfg     == MkCfg(AllStdout, 0, 0, 0, 0, FALSE, FALSE)
InfoToX   == [l \in Levels |-> IF l = Info THEN "x" ELSE NoPath]

\* ------------------------------------------------------------------ records
\* A produce call pushf(lvl, fmt, args...): the template and the arguments
\* as append_one renders them (string arguments: their bytes).
MkCall(fmt, args) == [fmt |-> fmt, args |-> args]
NoCall == MkCall(NoStr, <<>>)

\* the call of the scenarios that do not look at the text: MsgLen letters
MsgLen    == 8
PlainCall == MkCall(MkStr(MsgLen, <<>>), <<>>)

\* LogEntry: the producing thread, its per-thread sequence number (standing
\* for the timestamp), the level, the message and its size.
NoEntry == [tid |-> "", seq |-> 0, level |-> 0, len |-> 0, msg |-> NoStr]
MkEntry(t, k, lvl, msg) == [tid |-> t, seq |-> k, level |-> lvl, len |-> StrLen(msg), msg |-> msg]

\* format_prefix_plain: "[" ts "][" tid "][" L "] " with a one-digit tid
PrefixBytes == 1 + TsBytes + 1 + 3 + 3 + 1
ColorBytes  == 5 + 4

\* build_timestamp_string: "YYYY-MM-DD HH:MM:SS.mmm", every digit taken as 0
BuildTimestampString ==
    <<Digit0, Digit0, Digit0, Digit0, Dash, Digit0, Digit0, Dash, Digit0, Digit0, ChSpace,
      Digit0, Digit0, Colon, Digit0, Digit0, Colon, Digit0, Digit0, Dot, Digit0, Digit0, Digit0>>

\* level_name(lvl)[0]: T D I W E C F
LevelLetter(lvl) == <<84, 68, 73, 87, 69, 67, 70>>[lvl + 1]

\* the thread id as "%u" prints it: p1 is thread 1, p2 thread 2
ThreadIdString(t) == IF t = "p2" THEN <<Digit0 + 2>> ELSE <<Digit0 + 1>>

\* format_prefix_plain
FormatPrefixPlain(e) ==
    <<LBracket>> \o BuildTimestampString \o <<RBracket, LBracket>>
        \o ThreadIdString(e.tid) \o <<RBracket, LBracket, LevelLetter(e.level), RBracket, ChSpace>>

\* AnsiColors: "\x1b[90m" "\x1b[36m" "\x1b[32m" "\x1b[33m" "\x1b[31m"
\* "\x1b[91m" "\x1b[95m" and the reset "\x1b[0m"
ColorDigits(lvl) ==
    <<<<57, 48>>, <<51, 54>>, <<51, 50>>, <<51, 51>>, <<51, 49>>, <<57, 49>>, <<57, 53>>>>[lvl + 1]

\* color_codes_for: start and end
ColorStart(lvl, enabled) ==
    IF enabled THEN <<ESC, LBracket>> \o ColorDigits(lvl) \o <<ChM>> ELSE <<>>

ColorEnd(lvl, enabled) ==
    IF enabled THEN <<ESC, LBracket, Digit0, ChM>> ELSE <<>>

\* json_mode_emit, the loop for (unsigned char c : e.msg)
JsonEscapeByte_Raw(c) == <<c>>

JsonEscapeByte(c) ==
    IF c = Quote \/ c = Backslash THEN <<Backslash, c>>
    ELSE IF c = LF THEN <<Backslash, 110>>
    ELSE IF c = CR THEN <<Backslash, 114>>
    ELSE IF c = TAB THEN <<Backslash, 116>>
    ELSE <<c>>

RECURSIVE JsonEscape(_)
JsonEscape(b) ==
    IF b = <<>> THEN <<>> ELSE JsonEscapeByte(Head(b)) \o JsonEscape(Tail(b))

\* An emitted line: the bytes of head, then pad bytes 'a' (the leading run of
\* the message, which no escaping changes), then the bytes of tail.
\* text_mode_emit
TextModeEmit(e, color_enabled) ==
    [head |-> ColorStart(e.level, color_enabled) \o FormatPrefixPlain(e),
     pad  |-> e.msg.pad,
     tail |-> e.msg.b \o <<LF>> \o ColorEnd(e.level, color_enabled)]

\* json_mode_emit: {"time":"<ts>","thread":<tid>,"level":"<L>","msg":"<escaped>"}\n
JsonModeEmit(e) ==
    [head |-> <<LBrace, Quote, 116, 105, ChM, 101, Quote, Colon, Quote>>
                 \o BuildTimestampString
                 \o <<Quote, Comma, Quote, 116, 104, 114, 101, ChA, 100, Quote, Colon>>
                 \o ThreadIdString(e.tid)
                 \o <<Comma, Quote, 108, 101, 118, 101, 108, Quote, Colon, Quote>>
                 \o <<LevelLetter(e.level)>>
                 \o <<Quote, Comma, Quote, ChM, 115, 103, Quote, Colon, Quote>>,
     pad  |-> e.msg.pad,
     tail |-> JsonEscape(e.msg.b) \o <<Quote, RBrace, LF>>]

\* what flush_once_batch appends to the staging buffer for one record
EmitLine(line, json) ==
    IF json THEN JsonModeEmit(line.e) ELSE TextModeEmit(line.e, line.color)

\* bytes text_mode_emit / json_mode_emit append for one record
LineBytes(line, json) ==
    LET x == EmitLine(line, json)
    IN  Len(x.head) + x.pad + Len(x.tail)

RECURSIVE BufBytes(_, _)
BufBytes(buf, json) ==
    IF buf = <<>> THEN 0
    ELSE LineBytes(Head(buf), json) + BufBytes(Tail(buf), json)

EmptyBufs == [l \in Levels |-> <<>>]

\* ------------------------------------------------------------ Logger object
NoSink == [fd |-> 0, path |-> NoPath, bytes_written |-> 0, color_enabled |-> FALSE]

NoLogger ==
    [sinks               |-> [l \in Levels |-> NoSink],
     batch_size          |-> 0,
     max_file_size_bytes |-> 0,
     max_files           |-> 0,
     json_mode           |-> FALSE,
     track_metrics       |-> FALSE,
     shutting_down       |-> FALSE,
     flusher_started     |-> FALSE,
     metric_overflows    |-> 0,
     capacity            |-> 0,
     queue               |-> <<>>,
     fallback_queue      |-> <<>>]

\* Logger::Logger
NewLogger(sinks_init, queue_capacity, batch_size, max_file_size_bytes, max_files, json_mode, track_metrics) ==
    [sinks               |-> sinks_init,
     batch_size          |-> batch_size,
     max_file_size_bytes |-> max_file_size_bytes,
     max_files           |-> max_files,
     json_mode           |-> json_mode,
     track_metrics       |-> track_metrics,
     shutting_down       |-> FALSE,
     flusher_started     |-> FALSE,
     metric_overflows    |-> 0,
     capacity            |-> queue_capacity,
     queue               |-> <<>>,
     fallback_queue      |-> <<>>]

\* ------------------------------------------------- ThreadOverflowRing<64>
\* the ring of the overflow-ring variant of the produce path
OverflowN == 64
U16       == 65536

\* a ring whose head and tail stand at h: empty
EmptyRing(h) == [buf |-> [i \in 0 .. OverflowN - 1 |-> NoEntry], head |-> h, tail |-> h]

\* try_push
TryPush(r, e) ==
    LET next == ((r.tail + 1) % OverflowN) % U16
    IN  IF next = r.head
        THEN [ok |-> FALSE, ring |-> r]
        ELSE [ok |-> TRUE, ring |-> [r EXCEPT !.buf[r.tail] = e, !.tail = next]]

\* try_pop
TryPop(r) ==
    IF r.head = r.tail
    THEN [ok |-> FALSE, out |-> NoEntry, ring |-> r]
    ELSE [ok   |-> TRUE,
          out  |-> r.buf[r.head],
          ring |-> [r EXCEPT !.head = ((r.head + 1) % OverflowN) % U16]]

\* a rollback that does not wrap at index 0
RollbackLastPop_NoWrap(r) == [r EXCEPT !.head = IF r.head = 0 THEN 0 ELSE r.head - 1]

\* rollback_last_pop: head = uint16_t((head + 65535u) % N)
RollbackLastPop(r) == [r EXCEPT !.head = ((r.head + 65535) % OverflowN) % U16]

\* overwrite_last_rollback
OverwriteLastRollback(r, e) == [r EXCEPT !.buf[r.head] = e]

\* the records a ring holds, oldest first
RECURSIVE RingRecords(_)
RingRecords(r) ==
    IF r.head = r.tail THEN <<>>
    ELSE <<r.buf[r.head]>> \o RingRecords([r EXCEPT !.head = (r.head + 1) % OverflowN])

\* ---------------------------------------------------------------- locals
NoLocals ==
    [lg         |-> NULL,      \* the Logger pointer the thread holds
     overflow   |-> EmptyRing(0),  \* thread_local ThreadOverflowRing<64>
     popped     |-> NoEntry,   \* try_drain_overflow: tmp
     calls      |-> 0,         \* produce calls made so far
     call       |-> NoCall,    \* pushf: the template and the arguments
     msg        |-> NoStr,     \* pushf: the rendered message
     entry      |-> NoEntry,
     tmp        |-> <<>>,      \* flush_once_batch: the dequeued batch
     bufs       |-> EmptyBufs, \* flush_once_batch: per-level staging buffers
     lvl        |-> 0,         \* flush_once_batch: level of the write loop
     wlog       |-> <<>>,      \* flush_once_batch: I/O done by this call
     ret        |-> "",        \* where flush_once_batch returns to
     wr         |-> 0,         \* flush_once_batch: what ::write returned
     bw         |-> 0,         \* flush_once_batch: bytes_written as read by +=
     empty_mpmc |-> FALSE]

\* ------------------------------------------------------------ init_internal
\* open_or_fallback; ok = FALSE when the environment fails this ::open
OpenOrFallback(f, path, fallback_fd, ok) ==
    IF path = NoPath THEN [fs |-> f, fd |-> fallback_fd]
    ELSE LET r == FsOpen(f, path, ok)
         IN  IF r.fd < 0 THEN [fs |-> f, fd |-> fallback_fd] ELSE r

\* the path init_internal passes to init_sink for level l
SinkPath(cfg, l) ==
    IF l \in {Critical, Fatal} /\ cfg.path[l] = NoPath
    THEN cfg.path[Error]
    ELSE cfg.path[l]

\* the ::open calls of init_internal: the one of init_sink for level l is
\* site l, the one for base_fd is BaseSite; those that have a path to open
BaseSite == LEVEL_COUNT

OpenSites(cfg) ==
    {l \in Levels : SinkPath(cfg, l) # NoPath}
        \cup (IF cfg.path[Info] # NoPath THEN {BaseSite} ELSE {})

\* the init_sink calls of levels l .. Fatal, in order; bad holds the sites
\* whose ::open the environment fails
RECURSIVE InitSinks(_, _, _, _, _, _)
InitSinks(l, f, sinks, cfg, base_fd, bad) ==
    IF l >= LEVEL_COUNT THEN [fs |-> f, sinks |-> sinks]
    ELSE LET path == SinkPath(cfg, l)
             r    == OpenOrFallback(f, path, base_fd, l \notin bad)
             s    == [fd            |-> r.fd,
                      path          |-> path,
                      bytes_written |-> 0,
                      color_enabled |-> cfg.enable_color_stdout /\ IsAtty(r.fd)]
         IN  InitSinks(l + 1, r.fs, [sinks EXCEPT ![l] = s], cfg, base_fd, bad)

\* base_fd and the seven sinks
OpenSinks(f, cfg, bad) ==
    LET b    == IF cfg.path[Info] # NoPath
                THEN FsOpen(f, cfg.path[Info], BaseSite \notin bad)
                ELSE [fs |-> f, fd |-> -1]
        base == IF b.fd < 0 THEN 1 ELSE b.fd
    IN  InitSinks(0, b.fs, [l \in Levels |-> NoSink], cfg, base, bad)

\* init_internal's batch size: cfg.batch_size ? min(cfg.batch_size, 4096) : 1
ClampBatch_NoClamp(bs) == bs

ClampBatch(bs) == IF bs # 0 THEN Min(bs, BatchClamp) ELSE 1

FreeLoggerId == CHOOSE id \in LoggerIds :
                    heap[id] = "free" /\ \A j \in 1 .. (id - 1) : heap[j] # "free"

\* init_internal, the load of global_
I_Load(c) ==
    /\ pc[c] = "idle"
    /\ c \in InitCallers
    /\ pc' = [pc EXCEPT ![c] = IF global # NULL THEN "i_spawn" ELSE "i_open"]
    /\ hist' = [hist EXCEPT !.saw_set = IF global # NULL THEN @ \cup {c} ELSE @]
    /\ UNCHANGED <<global, heap, L, fs, loc, world>>

\* init_internal, opening the sinks and constructing the Logger
I_Construct(c) ==
    /\ pc[c] = "i_open"
    /\ \E id \in LoggerIds : heap[id] = "free"
    /\ \E cfg \in world.cfgs :
       \E bad \in SUBSET OpenSites(cfg) :
         /\ Cardinality(bad) <= world.faults
         /\ LET r  == OpenSinks(fs, cfg, bad)
                id == FreeLoggerId
            IN  /\ fs' = r.fs
                /\ heap' = [heap EXCEPT ![id] = "live"]
                /\ L' = [L EXCEPT ![id] =
                           NewLogger(r.sinks, cfg.queue_capacity,
                                     ClampBatch(cfg.batch_size),
                                     cfg.max_file_size_bytes, cfg.max_files,
                                     cfg.json_mode, cfg.track_metrics)]
                /\ loc' = [loc EXCEPT ![c].lg = id]
                /\ world' = [world EXCEPT !.faults = @ - Cardinality(bad)]
                /\ hist' = [hist EXCEPT !.cfg[id] = cfg, !.bad[id] = bad]
    /\ pc' = [pc EXCEPT ![c] = "i_store"]
    /\ UNCHANGED global

\* init_internal, the store that publishes the Logger
I_Store(c) ==
    /\ pc[c] = "i_store"
    /\ global' = loc[c].lg
    /\ hist' = [hist EXCEPT !.published = Append(@, loc[c].lg),
                            !.overwrote = @ \/ global # NULL]
    /\ pc' = [pc EXCEPT ![c] = "i_spawn"]
    /\ UNCHANGED <<heap, L, fs, loc, world>>

\* ulog::init, co_spawn(logger_flush_task())
I_Spawn(c) ==
    /\ pc[c] = "i_spawn"
    /\ pc' = [pc EXCEPT ![c] = "done", ![TaskOf(c)] = "t_spawned"]
    /\ hist' = [hist EXCEPT !.spawned = @ + 1]
    /\ UNCHANGED <<global, heap, L, fs, loc, world>>

\* ------------------------------------------------- use of a Logger pointer
\* A thread that reads or writes a member of a deleted Logger has touched
\* freed memory; the model lets it see the object's last contents.
Touch(t, lg) == IF heap[lg] = "deleted" THEN hist.uaf \cup {t} ELSE hist.uaf

\* is_shutting_down() as a thread may observe it: any value once the object
\* is freed.
ShuttingDownSeen(lg) ==
    IF heap[lg] = "deleted" THEN BOOLEAN ELSE {L[lg].shutting_down}

\* ------------------------------------------------------ the MPMC ring
\* MPMCQueue::try_enqueue succeeds iff a cell is free
QueueHasRoom(lg) == Len(L[lg].queue) < L[lg].capacity

\* ------------------------------------------------------------ produce path
\* pushf / enqueue_with_overflow, try_instance(): a null singleton ends the call
SingletonAbsent_NoCheck(lg) == FALSE

SingletonAbsent(lg) == lg = NULL

P_Load(p) ==
    /\ pc[p] = "idle"
    /\ p \in Producers
    /\ loc[p].calls < world.budget
    /\ \E lvl \in world.levels, call \in world.calls :
         LET msg == FmtBuild(call.fmt, call.args)
         IN  loc' = [loc EXCEPT ![p].calls = @ + 1,
                                ![p].lg = global,
                                ![p].call = call,
                                ![p].msg = msg,
                                ![p].entry = MkEntry(p, loc[p].calls + 1, lvl, StoredMsg(msg))]
    /\ pc' = [pc EXCEPT ![p] = IF SingletonAbsent(global) THEN "idle" ELSE "p_chk"]
    /\ hist' = [hist EXCEPT
                  !.overlap = @ \/ hist.sd_called,
                  !.absent_calls =
                     IF global # NULL THEN @
                     ELSE @ \cup {IF hist.published = <<>> THEN "before_init"
                                  ELSE IF hist.at_return.returned THEN "after_return"
                                  ELSE "after_clear"}]
    /\ UNCHANGED <<global, heap, L, fs, world>>

\* enqueue_with_overflow, the is_shutting_down() check
P_Check(p) ==
    /\ pc[p] = "p_chk"
    /\ IF loc[p].lg = NULL
       THEN /\ pc' = [pc EXCEPT ![p] = "crashed"]
            /\ hist' = [hist EXCEPT !.nullderef = @ \cup {p}]
       ELSE /\ \E sd \in ShuttingDownSeen(loc[p].lg) :
                 pc' = [pc EXCEPT ![p] = IF sd THEN "idle" ELSE "p_enq"]
            /\ hist' = [hist EXCEPT !.uaf = Touch(p, loc[p].lg)]
    /\ UNCHANGED <<global, heap, L, fs, loc, world>>

\* what the history keeps of an enqueue
EnqNote(p, via) ==
    [e |-> loc[p].entry, via |-> via,
     after_flag |-> L[loc[p].lg].shutting_down,
     after_delete |-> heap[loc[p].lg] = "deleted"]

\* enqueue_with_overflow, if (lg->track_metrics_)
TrackMetrics_Off(lg) == FALSE

TrackMetrics(lg) == L[lg].track_metrics

\* enqueue_with_overflow, queue_.try_enqueue(entry)
P_Enqueue(p) ==
    /\ pc[p] = "p_enq"
    /\ LET lg == loc[p].lg
       IN  IF QueueHasRoom(lg)
           THEN /\ L' = [L EXCEPT ![lg].queue = Append(@, loc[p].entry)]
                /\ pc' = [pc EXCEPT ![p] = "p_fchk"]
                /\ hist' = [hist EXCEPT !.uaf = Touch(p, lg),
                                        !.enq = @ \cup {EnqNote(p, "mpmc")}]
           ELSE /\ L' = L
                /\ pc' = [pc EXCEPT ![p] =
                            IF TrackMetrics(lg) THEN "p_metric" ELSE "p_fb"]
                /\ hist' = [hist EXCEPT !.uaf = Touch(p, lg),
                                        !.refused = @ + 1]
    /\ UNCHANGED <<global, heap, fs, loc, world>>

\* enqueue_with_overflow, metric_overflows_.fetch_add(1)
P_Metric(p) ==
    /\ pc[p] = "p_metric"
    /\ L' = [L EXCEPT ![loc[p].lg].metric_overflows = @ + 1]
    /\ pc' = [pc EXCEPT ![p] = "p_fb"]
    /\ hist' = [hist EXCEPT !.uaf = Touch(p, loc[p].lg)]
    /\ UNCHANGED <<global, heap, fs, loc, world>>

\* enqueue_with_overflow, fallback_queue_.enqueue under fallback_mutex_
P_FbEnqueue(p) ==
    /\ pc[p] = "p_fb"
    /\ L' = [L EXCEPT ![loc[p].lg].fallback_queue = Append(@, loc[p].entry)]
    /\ pc' = [pc EXCEPT ![p] = "p_fchk"]
    /\ hist' = [hist EXCEPT !.uaf = Touch(p, loc[p].lg),
                            !.enq = @ \cup {EnqNote(p, "fallback")},
                            !.mutex_by = @ \cup {p}]
    /\ UNCHANGED <<global, heap, fs, loc, world>>

\* a producer that leaves every flush to the flush task
InlineFlush_Never(lg) == FALSE

\* enqueue_with_overflow: whether the producer flushes inline
InlineFlush(lg) == ~L[lg].flusher_started

\* enqueue_with_overflow, if (!lg->flusher_running()) lg->flush_once_batch()
P_FlushCheck(p) ==
    /\ pc[p] = "p_fchk"
    /\ IF InlineFlush(loc[p].lg)
       THEN /\ pc' = [pc EXCEPT ![p] = "f_deq"]
            /\ loc' = [loc EXCEPT ![p].ret = "idle"]
       ELSE /\ pc' = [pc EXCEPT ![p] = "idle"]
            /\ loc' = loc
    /\ hist' = [hist EXCEPT !.uaf = Touch(p, loc[p].lg)]
    /\ UNCHANGED <<global, heap, L, fs, world>>

\* ---------------------------------------------------------------- rotation
Name(path, idx) == <<path, idx>>

\* the loop run upwards, from 1 to max_files - 2
RECURSIVE ShiftDown_Ascending(_, _, _)
ShiftDown_Ascending(f, path, i) ==
    IF i < 1 THEN f
    ELSE FsRename(ShiftDown_Ascending(f, path, i - 1), Name(path, i), Name(path, i + 1))

\* rotate_files, the loop for (i = max_files - 2; i >= 1; --i)
RECURSIVE ShiftDown(_, _, _)
ShiftDown(f, path, i) ==
    IF i < 1 THEN f
    ELSE ShiftDown(FsRename(f, Name(path, i), Name(path, i + 1)), path, i - 1)

\* rotate_files
RotateFiles(f, path, max_files) ==
    IF path = NoPath \/ max_files = 0 THEN f
    ELSE IF max_files = 1
    THEN FsRename(FsUnlink(f, Name(path, 1)), Name(path, 0), Name(path, 1))
    ELSE LET f1 == FsUnlink(f, Name(path, max_files - 1))
             f2 == ShiftDown(f1, path, max_files - 2)
         IN  FsRename(f2, Name(path, 0), Name(path, 1))

\* maybe_rotate_sink, the two early returns negated
RotateNeeded(s, max_file_size_bytes, incoming_bytes) ==
    /\ s.path # NoPath
    /\ max_file_size_bytes # 0
    /\ ~(s.bytes_written + incoming_bytes < max_file_size_bytes)

\* maybe_rotate_sink without the s.path = nullptr of a failed reopen
RotateSink_KeepPath(f, s, max_files, ok) ==
    LET f1 == IF s.fd \notin {1, 2} THEN FsClose(f, s.fd) ELSE f
        f2 == RotateFiles(f1, s.path, max_files)
        r  == FsOpen(f2, s.path, ok)
        nf == IF r.fd < 0 THEN 1 ELSE r.fd
    IN  [fs     |-> r.fs,
         failed |-> r.fd < 0,
         sink   |-> [fd            |-> nf,
                     path          |-> s.path,
                     bytes_written |-> 0,
                     color_enabled |-> IsAtty(nf)]]

\* maybe_rotate_sink past the early returns: the new file system and sink
RotateSink(f, s, max_files, ok) ==
    LET f1 == IF s.fd \notin {1, 2} THEN FsClose(f, s.fd) ELSE f
        f2 == RotateFiles(f1, s.path, max_files)
        r  == FsOpen(f2, s.path, ok)
        nf == IF r.fd < 0 THEN 1 ELSE r.fd
    IN  [fs     |-> r.fs,
         failed |-> r.fd < 0,
         sink   |-> [fd            |-> nf,
                     path          |-> IF r.fd < 0 THEN NoPath ELSE s.path,
                     bytes_written |-> 0,
                     color_enabled |-> IsAtty(nf)]]

\* a rotation that resets every sink configured with the rotated sink's path
StoreSink_SamePath(sinks, i, sink) ==
    [l \in Levels |-> IF sinks[l].path = sinks[i].path THEN sink ELSE sinks[l]]

\* maybe_rotate_sink(sinks_[i], ...) assigns the fields of the one Sink it
\* was handed by reference
StoreSink(sinks, i, sink) == [sinks EXCEPT ![i] = sink]

\* --------------------------------------------------------- flush_once_batch
FlushPcs == {"f_deq", "f_fb", "f_rot", "f_write", "f_count", "f_ret"}

\* the loop that formats tmp[0 .. n-1] into the per-level staging buffers
RECURSIVE Stage(_, _, _)
Stage(tmp, bufs, sinks) ==
    IF tmp = <<>> THEN bufs
    ELSE LET e == Head(tmp)
         IN  Stage(Tail(tmp),
                   [bufs EXCEPT ![e.level] =
                       Append(@, [e |-> e, color |-> sinks[e.level].color_enabled])],
                   sinks)

\* the next level at or after i whose staging buffer is non-empty
NextLevel(bufs, i) ==
    IF \E j \in Levels : j >= i /\ bufs[j] # <<>>
    THEN CHOOSE j \in Levels :
            /\ j >= i /\ bufs[j] # <<>>
            /\ \A k \in Levels : (k >= i /\ bufs[k] # <<>>) => j <= k
    ELSE LEVEL_COUNT

\* where a call goes once it has its batch: the write loop, or out
AfterDequeue(t, lg, tmp) ==
    LET bufs == Stage(tmp, EmptyBufs, L[lg].sinks)
    IN  [loc EXCEPT ![t].tmp = tmp, ![t].bufs = bufs,
                    ![t].lvl = NextLevel(bufs, 0), ![t].wlog = <<>>]

\* flush_once_batch, queue_.try_dequeue_bulk(tmp, limit)
F_DeqMpmc(t) ==
    /\ pc[t] = "f_deq"
    /\ LET lg    == loc[t].lg
           limit == L[lg].batch_size
           got   == Take(L[lg].queue, limit)
       IN  /\ L' = [L EXCEPT ![lg].queue = Drop(@, limit)]
           /\ IF Len(got) < limit
              THEN /\ loc' = [loc EXCEPT ![t].tmp = got, ![t].wlog = <<>>,
                                         ![t].bufs = EmptyBufs]
                   /\ pc' = [pc EXCEPT ![t] = "f_fb"]
              ELSE /\ loc' = AfterDequeue(t, lg, got)
                   /\ pc' = [pc EXCEPT ![t] = "f_rot"]
           /\ hist' = [hist EXCEPT !.uaf = Touch(t, lg)]
    /\ UNCHANGED <<global, heap, fs, world>>

\* a batch that leaves the fallback queue alone
FallbackRoom_None(limit, n) == 0

\* flush_once_batch, limit - n: how many records the batch may take from
\* fallback_queue_
FallbackRoom(limit, n) == limit - n

\* flush_once_batch, the top-up from fallback_queue_ under fallback_mutex_,
\* and the return when the batch is empty
F_DeqFallback(t) ==
    /\ pc[t] = "f_fb"
    /\ LET lg    == loc[t].lg
           limit == L[lg].batch_size
           n     == Len(loc[t].tmp)
           room  == FallbackRoom(limit, n)
           tmp   == loc[t].tmp \o Take(L[lg].fallback_queue, room)
       IN  /\ L' = [L EXCEPT ![lg].fallback_queue = Drop(@, room)]
           /\ IF tmp = <<>>
              THEN /\ loc' = loc
                   /\ pc' = [pc EXCEPT ![t] = loc[t].ret]
              ELSE /\ loc' = AfterDequeue(t, lg, tmp)
                   /\ pc' = [pc EXCEPT ![t] = "f_rot"]
           /\ hist' = [hist EXCEPT !.uaf = Touch(t, lg)]
    /\ UNCHANGED <<global, heap, fs, world>>

OpenOutcomes  == IF world.faults > 0 THEN BOOLEAN ELSE {TRUE}
WriteOutcomes(size) == IF world.faults > 0 THEN {size, size - 1, -1} ELSE {size}

\* flush_once_batch, maybe_rotate_sink(i, lb.size()) for the current level
F_Rotate(t) ==
    /\ pc[t] = "f_rot"
    /\ LET lg == loc[t].lg
           i  == loc[t].lvl
           s  == L[lg].sinks[i]
           sz == BufBytes(loc[t].bufs[i], L[lg].json_mode)
       IN  IF RotateNeeded(s, L[lg].max_file_size_bytes, sz)
           THEN \E ok \in OpenOutcomes :
                  LET r == RotateSink(fs, s, L[lg].max_files, ok)
                  IN  /\ fs' = r.fs
                      /\ L' = [L EXCEPT ![lg].sinks = StoreSink(@, i, r.sink)]
                      /\ loc' = [loc EXCEPT ![t].wlog =
                                   Append(@, [op |-> "rotate", lvl |-> i,
                                              fd |-> r.sink.fd, req |-> 0, ret |-> 0])]
                      /\ world' = [world EXCEPT !.faults = IF ok THEN @ ELSE @ - 1]
                      /\ hist' = [hist EXCEPT
                                    !.uaf = Touch(t, lg),
                                    !.io = @ \cup {<<t, "rotate">>},
                                    !.wsum[lg][i] = 0,
                                    !.rot[lg][i] = @ + 1,
                                    !.rotfail = IF r.failed THEN @ \cup {<<lg, i>>} ELSE @]
           ELSE /\ UNCHANGED <<fs, L, loc, world>>
                /\ hist' = [hist EXCEPT !.uaf = Touch(t, lg)]
    /\ pc' = [pc EXCEPT ![t] = "f_write"]
    /\ UNCHANGED <<global, heap>>

\* the records of a staging buffer that lie wholly within its first n bytes
RECURSIVE LinesWithin(_, _, _)
LinesWithin(buf, n, json) ==
    IF buf = <<>> \/ LineBytes(Head(buf), json) > n THEN <<>>
    ELSE <<Head(buf).e>> \o LinesWithin(Tail(buf), n - LineBytes(Head(buf), json), json)

\* the size flush_once_batch asks ::write for: lb.size()
WriteSize_FirstLine(buf, json) == LineBytes(Head(buf), json)

WriteSize(buf, json) == BufBytes(buf, json)

\* flush_once_batch, ::write(s.fd, lb.data(), lb.size()); when wr > 0 the
\* call goes on to s.bytes_written += wr, whose read of the counter is taken
\* here and whose store is F_Count (the counter is a plain size_t)
F_Write(t) ==
    /\ pc[t] = "f_write"
    /\ LET lg == loc[t].lg
           i  == loc[t].lvl
           s  == L[lg].sinks[i]
           sz == WriteSize(loc[t].bufs[i], L[lg].json_mode)
           nx == NextLevel(loc[t].bufs, i + 1)
       IN  \E out \in WriteOutcomes(sz) :
             LET wr    == FsWriteRet(fs, s.fd, out)
                 lines == LinesWithin(loc[t].bufs[i], wr, L[lg].json_mode)
                 chunk == [lvl |-> i, bytes |-> wr, lines |-> lines]
             IN  /\ fs' = FsWrite(fs, s.fd, chunk, out)
                 /\ loc' = [loc EXCEPT ![t].lvl = IF wr > 0 THEN i ELSE nx,
                                       ![t].wr = wr,
                                       ![t].bw = s.bytes_written,
                                       ![t].wlog =
                                          Append(@, [op |-> "write", lvl |-> i,
                                                     fd |-> s.fd, req |-> sz, ret |-> wr])]
                 /\ world' = [world EXCEPT !.faults = IF out = sz THEN @ ELSE @ - 1]
                 /\ hist' = [hist EXCEPT !.uaf = Touch(t, lg),
                                         !.io = @ \cup {<<t, "write">>},
                                         !.out[i] = @ \o lines,
                                         !.handed = @ \cup {x.e : x \in SeqToSet(loc[t].bufs[i])},
                                         !.rehanded = @ \/ \E x \in SeqToSet(loc[t].bufs[i]) : x.e \in hist.handed,
                                         !.wsum[lg][i] = IF wr > 0 THEN @ + wr ELSE @,
                                         !.wfail = @ \/ wr # sz]
                 /\ pc' = [pc EXCEPT ![t] = IF wr > 0 THEN "f_count"
                                            ELSE IF nx < LEVEL_COUNT THEN "f_rot"
                                            ELSE "f_ret"]
    /\ UNCHANGED <<global, heap, L>>

\* flush_once_batch, the store of s.bytes_written += (size_t) wr
F_Count(t) ==
    /\ pc[t] = "f_count"
    /\ LET lg == loc[t].lg
           i  == loc[t].lvl
           nx == NextLevel(loc[t].bufs, i + 1)
       IN  /\ L' = [L EXCEPT ![lg].sinks[i].bytes_written = loc[t].bw + loc[t].wr]
           /\ loc' = [loc EXCEPT ![t].lvl = nx]
           /\ hist' = [hist EXCEPT !.uaf = Touch(t, lg)]
           /\ pc' = [pc EXCEPT ![t] = IF nx < LEVEL_COUNT THEN "f_rot" ELSE "f_ret"]
    /\ UNCHANGED <<global, heap, fs, world>>

\* flush_once_batch returns: tmp and bufs are destroyed
F_Return(t) ==
    /\ pc[t] = "f_ret"
    /\ loc' = [loc EXCEPT ![t].tmp = <<>>, ![t].bufs = EmptyBufs,
                          ![t].lvl = 0, ![t].wlog = <<>>,
                          ![t].wr = 0, ![t].bw = 0]
    /\ pc' = [pc EXCEPT ![t] = loc[t].ret]
    /\ UNCHANGED <<global, heap, L, fs, world, hist>>

\* -------------------------------------------------------- logger_flush_task
\* auto& lg = Logger::instance(): dereferences global_
T_Instance(t) ==
    /\ pc[t] = "t_spawned"
    /\ loc' = [loc EXCEPT ![t].lg = global, ![t].ret = "t_sleep"]
    /\ pc' = [pc EXCEPT ![t] = IF global = NULL THEN "crashed" ELSE "t_mark"]
    /\ hist' = [hist EXCEPT !.nullderef = IF global = NULL THEN @ \cup {t} ELSE @]
    /\ UNCHANGED <<global, heap, L, fs, world>>

\* lg.mark_flusher_started()
T_Mark(t) ==
    /\ pc[t] = "t_mark"
    /\ L' = [L EXCEPT ![loc[t].lg].flusher_started = TRUE]
    /\ pc' = [pc EXCEPT ![t] = "f_deq"]
    /\ hist' = [hist EXCEPT !.uaf = Touch(t, loc[t].lg)]
    /\ UNCHANGED <<global, heap, fs, loc, world>>

\* co_await sleep_for(nanoseconds(lg.flush_interval_ns()))
T_Sleep(t) ==
    /\ pc[t] = "t_sleep"
    /\ pc' = [pc EXCEPT ![t] = "t_asleep"]
    /\ hist' = [hist EXCEPT !.uaf = Touch(t, loc[t].lg)]
    /\ UNCHANGED <<global, heap, L, fs, loc, world>>

\* the runtime resumes the task: next iteration of for (;;)
T_Resume(t) ==
    /\ pc[t] = "t_asleep"
    /\ pc' = [pc EXCEPT ![t] = "f_deq"]
    /\ UNCHANGED <<global, heap, L, fs, loc, world, hist>>

\* --------------------------------------------------------- shutdown_internal
\* Logger *g = global_.load(); if (!g) return;
S_Load(s) ==
    /\ pc[s] = "idle"
    /\ s \in Stoppers
    /\ loc' = [loc EXCEPT ![s].lg = global]
    /\ pc' = [pc EXCEPT ![s] = IF global = NULL THEN "done" ELSE "s_flag"]
    /\ hist' = [hist EXCEPT
                  !.sd_called = TRUE,
                  !.sd_count = @ + 1,
                  !.overlap = @ \/ \E p \in Producers : pc[p] \notin {"idle", "off"},
                  !.sd_returned = @ \/ global = NULL]
    /\ UNCHANGED <<global, heap, L, fs, world>>

\* g->shutting_down_.store(true)
S_SetFlag(s) ==
    /\ pc[s] = "s_flag"
    /\ L' = [L EXCEPT ![loc[s].lg].shutting_down = TRUE]
    /\ loc' = [loc EXCEPT ![s].ret = "s_mpmc"]
    /\ pc' = [pc EXCEPT ![s] = "f_deq"]
    /\ hist' = [hist EXCEPT
                  !.uaf = Touch(s, loc[s].lg),
                  !.at_flag = {n.e : n \in hist.enq}]
    /\ UNCHANGED <<global, heap, fs, world>>

\* bool empty_mpmc = g->queue_.empty()
S_EmptyMpmc(s) ==
    /\ pc[s] = "s_mpmc"
    /\ loc' = [loc EXCEPT ![s].empty_mpmc = (L[loc[s].lg].queue = <<>>)]
    /\ pc' = [pc EXCEPT ![s] = "s_fb"]
    /\ hist' = [hist EXCEPT !.uaf = Touch(s, loc[s].lg)]
    /\ UNCHANGED <<global, heap, L, fs, world>>

\* empty_fallback under the mutex; break when both are empty
DrainDone(empty_mpmc, empty_fallback) == empty_mpmc /\ empty_fallback

S_EmptyFallback(s) ==
    /\ pc[s] = "s_fb"
    /\ pc' = [pc EXCEPT ![s] =
                IF DrainDone(loc[s].empty_mpmc, L[loc[s].lg].fallback_queue = <<>>)
                THEN "s_close" ELSE "f_deq"]
    /\ hist' = [hist EXCEPT !.uaf = Touch(s, loc[s].lg)]
    /\ UNCHANGED <<global, heap, L, fs, loc, world>>

\* the fsync / close loop over sinks_[i .. LEVEL_COUNT-1] with the seen[]
\* array: the file system after it, the descriptors fsynced (seen[]) and the
\* ::close calls made, each with whether the descriptor was open
RECURSIVE CloseSinks(_, _, _, _)
CloseSinks(i, f, sinks, seen) ==
    IF i >= LEVEL_COUNT THEN [fs |-> f, seen |-> seen, closed |-> <<>>]
    ELSE LET fd == sinks[i].fd
         IN  IF fd \in SeqToSet(seen)
             THEN CloseSinks(i + 1, f, sinks, seen)
             ELSE LET r == CloseSinks(i + 1,
                                      IF fd \notin {1, 2} THEN FsClose(f, fd) ELSE f,
                                      sinks, Append(seen, fd))
                  IN  IF fd \in {1, 2} THEN r
                      ELSE [r EXCEPT !.closed = <<[fd |-> fd, open |-> f.fdtab[fd] # 0]>> \o @]

S_Close(s) ==
    /\ pc[s] = "s_close"
    /\ LET r == CloseSinks(0, fs, L[loc[s].lg].sinks, <<>>)
       IN  /\ fs' = r.fs
           /\ hist' = [hist EXCEPT !.uaf = Touch(s, loc[s].lg),
                                   !.io = @ \cup {<<s, "close">>},
                                   !.fsynced = @ \o r.seen,
                                   !.closed = @ \o r.closed,
                                   !.at_close = [l \in Levels |-> L[loc[s].lg].sinks[l].fd]]
    /\ pc' = [pc EXCEPT ![s] = "s_clear"]
    /\ UNCHANGED <<global, heap, L, loc, world>>

\* global_.store(nullptr)
S_Clear(s) ==
    /\ pc[s] = "s_clear"
    /\ global' = NULL
    /\ pc' = [pc EXCEPT ![s] = "s_delete"]
    /\ UNCHANGED <<heap, L, fs, loc, world, hist>>

\* delete g; shutdown() returns
S_Delete(s) ==
    /\ pc[s] = "s_delete"
    /\ heap' = [heap EXCEPT ![loc[s].lg] = "deleted"]
    /\ pc' = [pc EXCEPT ![s] = "done"]
    /\ hist' = [hist EXCEPT
                  !.sd_returned = TRUE,
                  !.at_return = [returned |-> TRUE,
                                 mpmc     |-> Len(L[loc[s].lg].queue),
                                 fallback |-> Len(L[loc[s].lg].fallback_queue),
                                 unhanded |-> hist.at_flag \ hist.handed]]
    /\ UNCHANGED <<global, L, fs, loc, world>>

\* the caller calls shutdown() once more after it has returned
S_Again(s) ==
    /\ pc[s] = "done"
    /\ s \in Stoppers
    /\ hist.sd_count < 2
    /\ pc' = [pc EXCEPT ![s] = "idle"]
    /\ UNCHANGED <<global, heap, L, fs, loc, world, hist>>

\* ------------------------------------------ ThreadOverflowRing operations
\* the owning thread pushes a record into its ring
R_Push(p) ==
    /\ pc[p] = "idle"
    /\ p \in Producers
    /\ loc[p].calls < world.budget
    /\ \E lvl \in world.levels :
         LET e == MkEntry(p, loc[p].calls + 1, lvl, PlainCall.fmt)
             r == TryPush(loc[p].overflow, e)
         IN  loc' = [loc EXCEPT ![p].calls = @ + 1, ![p].entry = e,
                                ![p].overflow = r.ring]
    /\ UNCHANGED <<global, heap, L, fs, pc, world, hist>>

\* try_drain_overflow, overflow.try_pop(tmp)
R_Pop(p) ==
    /\ pc[p] = "idle"
    /\ p \in Producers
    /\ LET r == TryPop(loc[p].overflow)
       IN  /\ r.ok
           /\ loc' = [loc EXCEPT ![p].overflow = r.ring, ![p].popped = r.out]
           /\ hist' = [hist EXCEPT !.ring_before = loc[p].overflow]
    /\ pc' = [pc EXCEPT ![p] = "r_popped"]
    /\ UNCHANGED <<global, heap, L, fs, world>>

\* try_drain_overflow, the MPMC ring took tmp: the pop stands
R_Keep(p) ==
    /\ pc[p] = "r_popped"
    /\ loc' = [loc EXCEPT ![p].popped = NoEntry]
    /\ pc' = [pc EXCEPT ![p] = "idle"]
    /\ UNCHANGED <<global, heap, L, fs, world, hist>>

\* try_drain_overflow, the MPMC ring refused tmp:
\* overflow.rollback_last_pop(); overflow.overwrite_last_rollback(tmp)
R_Rollback(p) ==
    /\ pc[p] = "r_popped"
    /\ loc' = [loc EXCEPT ![p].overflow =
                 OverwriteLastRollback(RollbackLastPop(@), loc[p].popped)]
    /\ pc' = [pc EXCEPT ![p] = "idle"]
    /\ UNCHANGED <<global, heap, L, fs, world, hist>>

\* ------------------------------- the overflow-ring variant of the logger
\* Logger::Logger of the variant: descriptors, colors, the MPMC ring, the
\* batch size; no fallback queue, no rotation
OvfLogger(fds, color_enabled, queue_capacity, batch_size) ==
    [NoLogger EXCEPT
        !.sinks = [l \in Levels |->
                     [fd |-> fds[l], path |-> NoPath, bytes_written |-> 0,
                      color_enabled |-> color_enabled[l]]],
        !.batch_size = batch_size,
        !.capacity = queue_capacity]

\* what the history keeps of an enqueue of the variant, which does not read
\* shutting_down_
OvfNote(e, via) == [e |-> e, via |-> via, after_flag |-> FALSE, after_delete |-> FALSE]

\* enqueue_with_overflow: the entry is built, Logger& log = instance()
O_Load(p) ==
    /\ pc[p] = "idle"
    /\ p \in Producers
    /\ loc[p].calls < world.budget
    /\ \E lvl \in world.levels :
         loc' = [loc EXCEPT ![p].calls = @ + 1,
                            ![p].lg = global,
                            ![p].entry = MkEntry(p, loc[p].calls + 1, lvl, PlainCall.fmt)]
    /\ pc' = [pc EXCEPT ![p] = IF global = NULL THEN "crashed" ELSE "o_enq"]
    /\ hist' = [hist EXCEPT !.nullderef = IF global = NULL THEN @ \cup {p} ELSE @]
    /\ UNCHANGED <<global, heap, L, fs, world>>

\* if (log.queue_.try_enqueue(entry))
O_Enqueue(p) ==
    /\ pc[p] = "o_enq"
    /\ LET lg == loc[p].lg
       IN  IF QueueHasRoom(lg)
           THEN /\ L' = [L EXCEPT ![lg].queue = Append(@, loc[p].entry)]
                /\ pc' = [pc EXCEPT ![p] = "o_drain"]
                /\ hist' = [hist EXCEPT !.enq = @ \cup {OvfNote(loc[p].entry, "mpmc")}]
           ELSE /\ L' = L
                /\ pc' = [pc EXCEPT ![p] = "o_push"]
                /\ hist' = [hist EXCEPT !.refused = @ + 1]
    /\ UNCHANGED <<global, heap, fs, loc, world>>

\* if (overflow.try_push(entry)) return;
O_Push(p) ==
    /\ pc[p] = "o_push"
    /\ LET r == TryPush(loc[p].overflow, loc[p].entry)
       IN  /\ loc' = [loc EXCEPT ![p].overflow = r.ring]
           /\ pc' = [pc EXCEPT ![p] = IF r.ok THEN "idle" ELSE "o_spin"]
           /\ hist' = [hist EXCEPT !.ring_pushed =
                          IF r.ok THEN @ \cup {loc[p].entry} ELSE @]
    /\ UNCHANGED <<global, heap, L, fs, world>>

\* while (!log.queue_.try_enqueue(entry)) cpu_relax(): the attempt that succeeds
O_Spin(p) ==
    /\ pc[p] = "o_spin"
    /\ QueueHasRoom(loc[p].lg)
    /\ L' = [L EXCEPT ![loc[p].lg].queue = Append(@, loc[p].entry)]
    /\ pc' = [pc EXCEPT ![p] = "o_drain"]
    /\ hist' = [hist EXCEPT !.enq = @ \cup {OvfNote(loc[p].entry, "mpmc")}]
    /\ UNCHANGED <<global, heap, fs, loc, world>>

\* try_drain_overflow, while (overflow.try_pop(tmp))
O_DrainPop(p) ==
    /\ pc[p] = "o_drain"
    /\ LET r == TryPop(loc[p].overflow)
       IN  /\ loc' = [loc EXCEPT ![p].overflow = r.ring, ![p].popped = r.out]
           /\ pc' = [pc EXCEPT ![p] = IF r.ok THEN "o_denq" ELSE "idle"]
    /\ UNCHANGED <<global, heap, L, fs, world, hist>>

\* try_drain_overflow, if (!q.try_enqueue(tmp)) { rollback; overwrite; break; }
O_DrainEnq(p) ==
    /\ pc[p] = "o_denq"
    /\ LET lg == loc[p].lg
       IN  IF QueueHasRoom(lg)
           THEN /\ L' = [L EXCEPT ![lg].queue = Append(@, loc[p].popped)]
                /\ loc' = [loc EXCEPT ![p].popped = NoEntry]
                /\ pc' = [pc EXCEPT ![p] = "o_drain"]
                /\ hist' = [hist EXCEPT !.enq = @ \cup {OvfNote(loc[p].popped, "ring")}]
           ELSE /\ L' = L
                /\ loc' = [loc EXCEPT ![p].overflow =
                             OverwriteLastRollback(RollbackLastPop(@), loc[p].popped),
                                      ![p].popped = NoEntry]
                /\ pc' = [pc EXCEPT ![p] = "idle"]
                /\ hist' = hist
    /\ UNCHANGED <<global, heap, fs, world>>

\* flush_once_batch of the variant: queue_.try_dequeue_bulk(tmp, limit);
\* if (n == 0) return
V_Deq(t) ==
    /\ pc[t] = "v_deq"
    /\ LET lg    == loc[t].lg
           limit == L[lg].batch_size
           got   == Take(L[lg].queue, limit)
       IN  /\ L' = [L EXCEPT ![lg].queue = Drop(@, limit)]
           /\ loc' = [loc EXCEPT ![t].tmp = got,
                                 ![t].bufs = Stage(got, EmptyBufs, L[lg].sinks)]
           /\ pc' = [pc EXCEPT ![t] = IF got = <<>> THEN loc[t].ret ELSE "v_write"]
    /\ UNCHANGED <<global, heap, fs, world, hist>>

\* the loop that writes the per-level buffers bufs[i .. LEVEL_COUNT-1]
RECURSIVE WriteBufs(_, _, _, _)
WriteBufs(i, f, sinks, bufs) ==
    IF i >= LEVEL_COUNT THEN f
    ELSE IF bufs[i] = <<>> THEN WriteBufs(i + 1, f, sinks, bufs)
    ELSE LET sz == BufBytes(bufs[i], FALSE)
             chunk == [lvl |-> i, bytes |-> sz, lines |-> LinesWithin(bufs[i], sz, FALSE)]
         IN  WriteBufs(i + 1, FsWrite(f, sinks[i].fd, chunk, sz), sinks, bufs)

\* flush_once_batch of the variant: format the batch, ::write(fds_[i], ...)
V_Write(t) ==
    /\ pc[t] = "v_write"
    /\ LET lg == loc[t].lg
       IN  /\ fs' = WriteBufs(0, fs, L[lg].sinks, loc[t].bufs)
           /\ hist' = [hist EXCEPT
                         !.io = @ \cup {<<t, "write">>},
                         !.out = [l \in Levels |-> @[l] \o LinesWithin(loc[t].bufs[l], BufBytes(loc[t].bufs[l], FALSE), FALSE)],
                         !.handed = @ \cup SeqToSet(loc[t].tmp),
                         !.rehanded = @ \/ SeqToSet(loc[t].tmp) \cap hist.handed # {}]
    /\ loc' = [loc EXCEPT ![t].tmp = <<>>, ![t].bufs = EmptyBufs]
    /\ pc' = [pc EXCEPT ![t] = loc[t].ret]
    /\ UNCHANGED <<global, heap, L, world>>

\* logger_flush_task of the variant: auto& lg = Logger::instance()
VT_Instance(t) ==
    /\ pc[t] = "v_spawned"
    /\ loc' = [loc EXCEPT ![t].lg = global, ![t].ret = "v_sleep"]
    /\ pc' = [pc EXCEPT ![t] = IF global = NULL THEN "crashed" ELSE "v_deq"]
    /\ hist' = [hist EXCEPT !.nullderef = IF global = NULL THEN @ \cup {t} ELSE @]
    /\ UNCHANGED <<global, heap, L, fs, world>>

\* co_await sleep_for(...), and the next iteration
VT_Sleep(t) ==
    /\ pc[t] = "v_sleep"
    /\ pc' = [pc EXCEPT ![t] = "v_deq"]
    /\ UNCHANGED <<global, heap, L, fs, loc, world, hist>>

\* shutdown_internal of the variant: Logger* g = global_; if (!g) return;
VS_Load(s) ==
    /\ pc[s] = "idle"
    /\ s \in Stoppers
    /\ loc' = [loc EXCEPT ![s].lg = global]
    /\ pc' = [pc EXCEPT ![s] = IF global = NULL THEN "done" ELSE "vs_flag"]
    /\ hist' = [hist EXCEPT
                  !.sd_called = TRUE,
                  !.sd_count = @ + 1,
                  !.overlap = @ \/ \E p \in Producers : pc[p] \notin {"idle", "off"},
                  !.at_flag = hist.ring_pushed]
    /\ UNCHANGED <<global, heap, L, fs, world>>

\* g->shutting_down_.store(true); the first flush_once_batch
VS_SetFlag(s) ==
    /\ pc[s] = "vs_flag"
    /\ L' = [L EXCEPT ![loc[s].lg].shutting_down = TRUE]
    /\ loc' = [loc EXCEPT ![s].ret = "vs_empty"]
    /\ pc' = [pc EXCEPT ![s] = "v_deq"]
    /\ UNCHANGED <<global, heap, fs, world, hist>>

\* if (g->queue_.empty()) break; else the next flush_once_batch
VS_Empty(s) ==
    /\ pc[s] = "vs_empty"
    /\ pc' = [pc EXCEPT ![s] = IF L[loc[s].lg].queue = <<>> THEN "vs_close" ELSE "v_deq"]
    /\ UNCHANGED <<global, heap, L, fs, loc, world, hist>>

\* the fsync / close loop; shutdown() returns
VS_Close(s) ==
    /\ pc[s] = "vs_close"
    /\ LET r == CloseSinks(0, fs, L[loc[s].lg].sinks, <<>>)
       IN  /\ fs' = r.fs
           /\ hist' = [hist EXCEPT
                         !.io = @ \cup {<<s, "close">>},
                         !.fsynced = @ \o r.seen,
                         !.closed = @ \o r.closed,
                         !.sd_returned = TRUE,
                         !.at_return = [returned |-> TRUE,
                                        mpmc     |-> Len(L[loc[s].lg].queue),
                                        fallback |-> 0,
                                        unhanded |-> hist.at_flag \ hist.handed]]
    /\ pc' = [pc EXCEPT ![s] = "done"]
    /\ UNCHANGED <<global, heap, L, loc, world>>

\* ------------------------------------------------------------ rotate_files
\* rotate_files(path, max_files) called on the files found on disk
X_Rotate ==
    /\ hist.rotated.n < world.budget
    /\ \E k \in 2 .. MaxIdx + 1 :
         /\ fs' = RotateFiles(fs, "x", k)
         /\ hist' = [hist EXCEPT !.rotated = [n |-> @.n + 1, k |-> k, dir |-> fs.dir]]
    /\ UNCHANGED <<global, heap, L, pc, loc, world>>

\* the ::open of maybe_rotate_sink that follows rotate_files, and the close
\* before the next one
X_Reopen ==
    /\ fs.dir[Name("x", 0)] = 0
    /\ LET r == FsOpen(fs, "x", TRUE)
       IN  /\ r.fd # -1
           /\ fs' = FsClose(r.fs, r.fd)
    /\ UNCHANGED <<global, heap, L, pc, loc, world, hist>>

\* ------------------------------------------------------------ specification
NoHist ==
    [published    |-> <<>>,   \* Logger ids stored into global_, in order
     overwrote    |-> FALSE,  \* a store replaced a non-null global_
     saw_set      |-> {},     \* init callers that found global_ set
     spawned      |-> 0,      \* flush tasks spawned
     uaf          |-> {},     \* threads that touched a deleted Logger
     nullderef    |-> {},     \* threads that dereferenced a null global_
     enq          |-> {},     \* enqueues done
     refused      |-> 0,      \* try_enqueue calls the ring refused
     mutex_by     |-> {},     \* producers that took fallback_mutex_
     absent_calls |-> {},     \* when produce calls found no singleton
     io           |-> {},     \* <<thread, operation>> of sink I/O
     out          |-> [l \in Levels |-> <<>>],  \* records written, per level
     wfail        |-> FALSE,  \* a write returned less than requested
     rehanded     |-> FALSE,  \* a record was passed to a second write call
     cfg          |-> [id \in LoggerIds |-> NoCfg],  \* the ULogInit each Logger was built from
     wsum         |-> [id \in LoggerIds |-> [l \in Levels |-> 0]],  \* bytes the writes returned since the sink's last rotation
     rot          |-> [id \in LoggerIds |-> [l \in Levels |-> 0]],  \* rotations of each sink
     bad          |-> [id \in LoggerIds |-> {}],  \* the opens of init that failed
     rotfail      |-> {},     \* <<Logger, level>> whose reopen after a rotation failed
     fsynced      |-> <<>>,   \* descriptors shutdown fsynced
     closed       |-> <<>>,   \* the ::close calls of shutdown
     at_close     |-> [l \in Levels |-> 0],  \* the sinks' descriptors when shutdown closed them
     sd_count     |-> 0,      \* shutdown() calls made
     ring_before  |-> EmptyRing(0),  \* the overflow ring before its last try_pop
     ring_pushed  |-> {},     \* records pushed into an overflow ring
     rotated      |-> [n |-> 0, k |-> 0, dir |-> FsInit.dir],  \* rotate_files calls: how many, the last max_files, the directory before it
     sd_called    |-> FALSE,
     sd_returned  |-> FALSE,
     overlap      |-> FALSE,  \* a produce call overlapped or followed shutdown()
     at_flag      |-> {},     \* records enqueued when the flag was set
     handed       |-> {},     \* records passed to a write call
     at_return    |-> [returned |-> FALSE, mpmc |-> 0, fallback |-> 0,
                       unhanded |-> {}]]  \* the queues when shutdown() returned

InitCalls(active, cfgs, levels, budget, tty, faults, calls) ==
    /\ global = NULL
    /\ heap = [id \in LoggerIds |-> "free"]
    /\ L = [id \in LoggerIds |-> NoLogger]
    /\ fs = FsInit
    /\ pc = [t \in Threads |->
               IF t \in FlushTasks THEN "unspawned"
               ELSE IF t \in active THEN "idle" ELSE "off"]
    /\ loc = [t \in Threads |-> NoLocals]
    /\ world = [cfgs |-> cfgs, levels |-> levels, budget |-> budget,
                tty |-> tty, faults |-> faults, calls |-> calls]
    /\ hist = NoHist

\* the scenarios whose produce calls all log the same plain text
InitWith(active, cfgs, levels, budget, tty, faults) ==
    InitCalls(active, cfgs, levels, budget, tty, faults, {PlainCall})

\* Spec: one init, one producer, the flush task, one shutdown; every sink
\* is stdout, the ring has one cell and a batch holds one record.
RunCfgs == {MkCfg(AllStdout, 1, 1, 0, 3, TRUE, FALSE)}

Init == InitWith({"i1", "p1", "s1"}, RunCfgs, {Info}, MaxProduce + 1, FALSE, 0)

Next ==
    \/ \E c \in InitCallers : I_Load(c)
    \/ \E c \in InitCallers : I_Construct(c)
    \/ \E c \in InitCallers : I_Store(c)
    \/ \E c \in InitCallers : I_Spawn(c)
    \/ \E p \in Producers : P_Load(p)
    \/ \E p \in Producers : P_Check(p)
    \/ \E p \in Producers : P_Enqueue(p)
    \/ \E p \in Producers : P_Metric(p)
    \/ \E p \in Producers : P_FbEnqueue(p)
    \/ \E p \in Producers : P_FlushCheck(p)
    \/ \E t \in Threads : F_DeqMpmc(t)
    \/ \E t \in Threads : F_DeqFallback(t)
    \/ \E t \in Threads : F_Rotate(t)
    \/ \E t \in Threads : F_Write(t)
    \/ \E t \in Threads : F_Count(t)
    \/ \E t \in Threads : F_Return(t)
    \/ \E t \in FlushTasks : T_Instance(t)
    \/ \E t \in FlushTasks : T_Mark(t)
    \/ \E t \in FlushTasks : T_Sleep(t)
    \/ \E t \in FlushTasks : T_Resume(t)
    \/ \E s \in Stoppers : S_Load(s)
    \/ \E s \in Stoppers : S_SetFlag(s)
    \/ \E s \in Stoppers : S_EmptyMpmc(s)
    \/ \E s \in Stoppers : S_EmptyFallback(s)
    \/ \E s \in Stoppers : S_Close(s)
    \/ \E s \in Stoppers : S_Clear(s)
    \/ \E s \in Stoppers : S_Delete(s)

Spec == Init /\ [][Next]_vars

\* SpecFile: the same threads; Info goes to the file "x", which rotates once
\* 60 bytes are reached, and a batch holds two records.
FileCfgs == {MkCfg(InfoToX, 1, 2, 60, 2, TRUE, FALSE)}

InitFile == InitWith({"i1", "p1", "s1"}, FileCfgs, {Info, Error}, MaxProduce, FALSE, 0)

SpecFile == InitFile /\ [][Next]_vars

\* SpecInit: two threads call ulog::init; the flush tasks they spawn run.
InitRace == InitWith({"i1", "i2"}, RunCfgs, {Info}, 0, FALSE, 0)

NextInit ==
    \/ \E c \in InitCallers : I_Load(c)
    \/ \E c \in InitCallers : I_Construct(c)
    \/ \E c \in InitCallers : I_Store(c)
    \/ \E c \in InitCallers : I_Spawn(c)
    \/ \E t \in FlushTasks : T_Instance(t)
    \/ \E t \in FlushTasks : T_Mark(t)
    \/ \E t \in FlushTasks : F_DeqMpmc(t)
    \/ \E t \in FlushTasks : F_DeqFallback(t)
    \/ \E t \in FlushTasks : T_Sleep(t)
    \/ \E t \in FlushTasks : T_Resume(t)

SpecInit == InitRace /\ [][NextInit]_vars

\* SpecSeq: the program before the host event loop runs (as the examples'
\* main logs between ulog::init and uvent.run()): the spawned flush task has
\* not started, so every produce call flushes inline.  Info goes to the file
\* "x"; the configurations differ in the rotation threshold, in max_files and
\* in the queue capacity.
LineSz == PrefixBytes + MsgLen + 1

SeqCfgs ==
    {MkCfg(InfoToX, 1, 2, m, k, TRUE, FALSE) : m \in {0, LineSz, 2 * LineSz, 2 * LineSz + 1}, k \in {1, 3}}
        \cup {MkCfg(InfoToX, 21, 2, 0, 3, TRUE, FALSE)}

InitSeq == InitWith({"i1", "p1"}, SeqCfgs, {Trace, Info}, MaxProduce + 1, FALSE, 0)

NextSeq ==
    \/ \E c \in InitCallers : I_Load(c)
    \/ \E c \in InitCallers : I_Construct(c)
    \/ \E c \in InitCallers : I_Store(c)
    \/ \E c \in InitCallers : I_Spawn(c)
    \/ \E p \in Producers : P_Load(p)
    \/ \E p \in Producers : P_Check(p)
    \/ \E p \in Producers : P_Enqueue(p)
    \/ \E p \in Producers : P_FlushCheck(p)
    \/ \E p \in Producers : F_DeqMpmc(p)
    \/ \E p \in Producers : F_DeqFallback(p)
    \/ \E p \in Producers : F_Rotate(p)
    \/ \E p \in Producers : F_Write(p)
    \/ \E p \in Producers : F_Count(p)
    \/ \E p \in Producers : F_Return(p)

SpecSeq == InitSeq /\ [][NextSeq]_vars

\* SpecShare: as SpecSeq, with only error_path set: the Error, Critical and
\* Fatal sinks are three handles on the one file "x", each with its own
\* bytes_written; the threshold is two lines and a byte.
ErrToX == [l \in Levels |-> IF l = Error THEN "x" ELSE NoPath]

ShareCfgs == {MkCfg(ErrToX, 1, 2, 2 * LineSz + 1, 3, TRUE, FALSE)}

InitShare == InitWith({"i1", "p1"}, ShareCfgs, {Error, Critical, Fatal}, MaxProduce + 5, FALSE, 0)

SpecShare == InitShare /\ [][NextSeq]_vars

\* SpecSeqFault: as SpecSeq, with Info and Error (hence Critical and Fatal)
\* on the file "x", a threshold of one line, and up to MaxFaults failures the
\* environment injects into open and write calls.
InfoErrToX == [l \in Levels |-> IF l \in {Info, Error} THEN "x" ELSE NoPath]

FaultSeqCfgs == {MkCfg(InfoErrToX, 1, 2, LineSz, 3, TRUE, FALSE)}

InitSeqFault == InitWith({"i1", "p1"}, FaultSeqCfgs, {Info, Error}, MaxProduce + 1, FALSE, MaxFaults)

SpecSeqFault == InitSeqFault /\ [][NextSeq]_vars

\* SpecFault: the threads of SpecFile with one failure the environment may
\* inject into an open or a write.
InitFault == InitWith({"i1", "p1", "s1"}, FileCfgs, {Info, Error}, MaxProduce, FALSE, MaxFaults - 1)

SpecFault == InitFault /\ [][Next]_vars

\* SpecBatch: the threads of Spec, every sink stdout, a ring of one cell;
\* the configurations ask for a batch_size of 0, of 2 and of one more than
\* the clamp.
BatchCfgs == {MkCfg(AllStdout, 1, bs, 0, 3, TRUE, FALSE) : bs \in {0, 2, BatchClamp + 1}}

InitBatch == InitWith({"i1", "p1", "s1"}, BatchCfgs, {Info}, MaxProduce, FALSE, 0)

SpecBatch == InitBatch /\ [][Next]_vars

\* SpecMsg: the program before the event loop runs, every sink stdout; the
\* produce calls log texts made of one- to four-byte code points ('a', U+00E9,
\* U+20AC, U+1F600), alone or after a run of letters that ends at or around
\* the 64 KiB limit.
Utf8Chars == {<<ChA>>, <<195, 169>>, <<226, 130, 172>>, <<240, 159, 152, 128>>}

MsgTexts == {<<>>} \cup Utf8Chars \cup {c \o d : c \in Utf8Chars, d \in Utf8Chars}

MsgPads == {0} \cup {kMaxLogLineBytes + d : d \in -4 .. 1}

MsgCalls == {MkCall(MkStr(pad, t), <<>>) : pad \in MsgPads, t \in MsgTexts}

MsgCfgs == {MkCfg(AllStdout, 1, 2, 0, 3, TRUE, FALSE)}

InitMsg == InitCalls({"i1", "p1"}, MsgCfgs, {Info}, 1, FALSE, 0, MsgCalls)

SpecMsg == InitMsg /\ [][NextSeq]_vars

\* SpecColor: as SpecSeq, with only error_path set (Info is stdout, Error the
\* file "x" with a threshold of one line), standard output a terminal or
\* not, color asked for or not, and one failure the environment may inject
\* into an open or a write.
ColorCfgs == {MkCfg(ErrToX, 1, 2, LineSz, 3, TRUE, c) : c \in BOOLEAN}

InitColor ==
    \E tty \in BOOLEAN :
        InitWith({"i1", "p1"}, ColorCfgs, {Info, Error}, MaxProduce + 1, tty, MaxFaults - 1)

SpecColor == InitColor /\ [][NextSeq]_vars

\* SpecJson: as SpecSeq with json_mode on and every sink stdout, a terminal
\* or not, color asked for or not; the produce calls log texts of up to two
\* bytes among the double quote, the backslash, LF, CR, TAB and three other
\* bytes, and the text a"b<LF>c<TAB>d.
JsonBytes == {Quote, Backslash, LF, CR, TAB, ChA, 1, 233}

JsonScenarioText == <<ChA, Quote, ChB, LF, 99, TAB, 100>>

JsonTexts ==
    {<<c>> : c \in JsonBytes} \cup {<<c, d>> : c \in JsonBytes, d \in JsonBytes}
        \cup {JsonScenarioText}

JsonCalls == {MkCall(MkStr(0, t), <<>>) : t \in JsonTexts}

JsonCfgs == {MkJsonCfg(AllStdout, 1, 2, 0, 3, TRUE, c) : c \in BOOLEAN}

InitJson ==
    \E tty \in BOOLEAN :
        InitCalls({"i1", "p1"}, JsonCfgs, {Info}, 1, tty, 0, JsonCalls)

SpecJson == InitJson /\ [][NextSeq]_vars

\* SpecFmt: as SpecSeq with every sink stdout; the produce calls pass the
\* templates made of up to three pieces among a letter, a space, {{, }}, {},
\* {0} and {1}, and the template x={{}}, with no argument, with one ("1") and
\* with two ("b", "a").
FmtPieces ==
    {<<ChX>>, <<ChSpace>>, <<LBrace, LBrace>>, <<RBrace, RBrace>>, <<LBrace, RBrace>>,
     <<LBrace, Digit0, RBrace>>, <<LBrace, Digit0 + 1, RBrace>>}

FmtTemplates ==
    {<<>>} \cup FmtPieces \cup {a \o b : a \in FmtPieces, b \in FmtPieces}
        \cup {a \o b \o c : a \in FmtPieces, b \in FmtPieces, c \in FmtPieces}
        \cup {<<ChX, ChEq, LBrace, LBrace, RBrace, RBrace>>}

FmtArgs == {<<>>, <<<<Digit0 + 1>>>>, <<<<ChB>>, <<ChA>>>>}

FmtCalls == {MkCall(MkStr(0, f), a) : f \in FmtTemplates, a \in FmtArgs}

InitFmt == InitCalls({"i1", "p1"}, MsgCfgs, {Info}, 1, FALSE, 0, FmtCalls)

SpecFmt == InitFmt /\ [][NextSeq]_vars

\* SpecOverflow: two threads log before the event loop runs, every sink
\* stdout, a ring of one cell and a batch of one record: a produce call finds
\* the ring full whenever the other thread's record is still in it.
InitOverflow == InitWith({"i1", "p1", "p2"}, RunCfgs, {Info}, MaxProduce, FALSE, 0)

NextOverflow ==
    \/ \E c \in InitCallers : I_Load(c)
    \/ \E c \in InitCallers : I_Construct(c)
    \/ \E c \in InitCallers : I_Store(c)
    \/ \E c \in InitCallers : I_Spawn(c)
    \/ \E p \in Producers : P_Load(p)
    \/ \E p \in Producers : P_Check(p)
    \/ \E p \in Producers : P_Enqueue(p)
    \/ \E p \in Producers : P_Metric(p)
    \/ \E p \in Producers : P_FbEnqueue(p)
    \/ \E p \in Producers : P_FlushCheck(p)
    \/ \E p \in Producers : F_DeqMpmc(p)
    \/ \E p \in Producers : F_DeqFallback(p)
    \/ \E p \in Producers : F_Rotate(p)
    \/ \E p \in Producers : F_Write(p)
    \/ \E p \in Producers : F_Count(p)
    \/ \E p \in Producers : F_Return(p)

SpecOverflow == InitOverflow /\ [][NextOverflow]_vars

\* SpecShut: ulog::init, one thread that logs and one that calls shutdown()
\* and then shutdown() again; the flush task is not scheduled.  Info goes to
\* the file "x" with a threshold of one line, the other levels have no path,
\* and the environment may fail up to MaxFaults open or write calls.
ShutCfgs == {MkCfg(InfoToX, 1, 2, LineSz, 3, TRUE, FALSE)}

InitShut == InitWith({"i1", "p1", "s1"}, ShutCfgs, {Info, Error}, 1, FALSE, MaxFaults)

NextShut ==
    \/ \E c \in InitCallers : I_Load(c)
    \/ \E c \in InitCallers : I_Construct(c)
    \/ \E c \in InitCallers : I_Store(c)
    \/ \E c \in InitCallers : I_Spawn(c)
    \/ \E p \in Producers : P_Load(p)
    \/ \E p \in Producers : P_Check(p)
    \/ \E p \in Producers : P_Enqueue(p)
    \/ \E p \in Producers : P_FlushCheck(p)
    \/ \E t \in Producers \cup Stoppers : F_DeqMpmc(t)
    \/ \E t \in Producers \cup Stoppers : F_DeqFallback(t)
    \/ \E t \in Producers \cup Stoppers : F_Rotate(t)
    \/ \E t \in Producers \cup Stoppers : F_Write(t)
    \/ \E t \in Producers \cup Stoppers : F_Count(t)
    \/ \E t \in Producers \cup Stoppers : F_Return(t)
    \/ \E s \in Stoppers : S_Load(s)
    \/ \E s \in Stoppers : S_SetFlag(s)
    \/ \E s \in Stoppers : S_EmptyMpmc(s)
    \/ \E s \in Stoppers : S_EmptyFallback(s)
    \/ \E s \in Stoppers : S_Close(s)
    \/ \E s \in Stoppers : S_Clear(s)
    \/ \E s \in Stoppers : S_Delete(s)
    \/ \E s \in Stoppers : S_Again(s)

SpecShut == InitShut /\ [][NextShut]_vars

\* SpecRing: one thread's ThreadOverflowRing<64>, its head and tail standing
\* at any index when the run starts; the thread pushes records, pops, and
\* rolls a pop back.
InitRing ==
    /\ global = NULL
    /\ heap = [id \in LoggerIds |-> "free"]
    /\ L = [id \in LoggerIds |-> NoLogger]
    /\ fs = FsInit
    /\ pc = [t \in Threads |->
               IF t \in FlushTasks THEN "unspawned"
               ELSE IF t = "p1" THEN "idle" ELSE "off"]
    /\ \E h \in 0 .. OverflowN - 1 :
          loc = [t \in Threads |->
                   IF t = "p1" THEN [NoLocals EXCEPT !.overflow = EmptyRing(h)]
                   ELSE NoLocals]
    /\ world = [cfgs |-> RunCfgs, levels |-> {Info, Error}, budget |-> MaxProduce + 1,
                tty |-> FALSE, faults |-> 0, calls |-> {PlainCall}]
    /\ hist = NoHist

NextRing ==
    \/ \E p \in Producers : R_Push(p)
    \/ \E p \in Producers : R_Pop(p)
    \/ \E p \in Producers : R_Keep(p)
    \/ \E p \in Producers : R_Rollback(p)

SpecRing == InitRing /\ [][NextRing]_vars

\* SpecOvf: the overflow-ring variant after its init_internal (no path
\* configured: every level on descriptor 1; a ring of one cell, batches of
\* one): one thread that logs and the flush task.  SpecOvfShut: one thread
\* that logs and one that calls shutdown(), the flush task not scheduled.
OvfFds == [l \in Levels |-> 1]

\* the entry of the k-th produce call of thread p in SpecOvf
OvfEntry(p, k) == MkEntry(p, k, Info, PlainCall.fmt)

\* a fresh ring after try_push took the entries of the calls from .. to
RingHolding(p, from, to) ==
    LET n == IF to < from THEN 0 ELSE to - from + 1
    IN  [buf  |-> [i \in 0 .. OverflowN - 1 |->
                     IF i < n THEN OvfEntry(p, from + i) ELSE NoEntry],
         head |-> 0,
         tail |-> n]

\* the calls thread p1 has made when the run starts: none, or so many that
\* its overflow ring is full (the first call's record is in the MPMC ring,
\* the others were refused and pushed), with one more call to come
OvfPrefill == OverflowN

InitOvfAfter(k, active) ==
    /\ global = 1
    /\ heap = [id \in LoggerIds |-> IF id = 1 THEN "live" ELSE "free"]
    /\ L = [id \in LoggerIds |->
              IF id = 1
              THEN [OvfLogger(OvfFds, [l \in Levels |-> FALSE], 1, ClampBatch(1))
                      EXCEPT !.queue = IF k = 0 THEN <<>> ELSE <<OvfEntry("p1", 1)>>]
              ELSE NoLogger]
    /\ fs = FsInit
    /\ pc = [t \in Threads |->
               IF t \notin active THEN "off"
               ELSE IF t \in FlushTasks THEN "v_spawned" ELSE "idle"]
    /\ loc = [t \in Threads |->
                IF t = "p1" /\ k > 0
                THEN [NoLocals EXCEPT !.lg = 1, !.calls = k,
                                      !.entry = OvfEntry("p1", k),
                                      !.overflow = RingHolding("p1", 2, k)]
                ELSE NoLocals]
    /\ world = [cfgs |-> {}, levels |-> {Info}, budget |-> IF k = 0 THEN MaxProduce + 1 ELSE k + 1,
                tty |-> FALSE, faults |-> 0, calls |-> {PlainCall}]
    /\ hist = [NoHist EXCEPT
                 !.published = <<1>>,
                 !.enq = IF k = 0 THEN {} ELSE {OvfNote(OvfEntry("p1", 1), "mpmc")},
                 !.refused = IF k = 0 THEN 0 ELSE k - 1,
                 !.ring_pushed = {OvfEntry("p1", i) : i \in 2 .. k}]

InitOvf == \E k \in {0, OvfPrefill} : InitOvfAfter(k, {"p1", "t1"})

NextOvf ==
    \/ \E p \in Producers : O_Load(p)
    \/ \E p \in Producers : O_Enqueue(p)
    \/ \E p \in Producers : O_Push(p)
    \/ \E p \in Producers : O_Spin(p)
    \/ \E p \in Producers : O_DrainPop(p)
    \/ \E p \in Producers : O_DrainEnq(p)
    \/ \E t \in FlushTasks : V_Deq(t)
    \/ \E t \in FlushTasks : V_Write(t)
    \/ \E t \in FlushTasks : VT_Instance(t)
    \/ \E t \in FlushTasks : VT_Sleep(t)

SpecOvf == InitOvf /\ [][NextOvf]_vars

InitOvfShut == \E k \in {0, OvfPrefill} : InitOvfAfter(k, {"p1", "s1"})

NextOvfShut ==
    \/ \E p \in Producers : O_Load(p)
    \/ \E p \in Producers : O_Enqueue(p)
    \/ \E p \in Producers : O_Push(p)
    \/ \E p \in Producers : O_Spin(p)
    \/ \E p \in Producers : O_DrainPop(p)
    \/ \E p \in Producers : O_DrainEnq(p)
    \/ \E s \in Stoppers : V_Deq(s)
    \/ \E s \in Stoppers : V_Write(s)
    \/ \E s \in Stoppers : VS_Load(s)
    \/ \E s \in Stoppers : VS_SetFlag(s)
    \/ \E s \in Stoppers : VS_Empty(s)
    \/ \E s \in Stoppers : VS_Close(s)

SpecOvfShut == InitOvfShut /\ [][NextOvfShut]_vars

\* SpecRot: rotate_files on a directory in which any of "x", "x.1", ...
\* exist when the run starts, each a file of its own, for every max_files
\* from 2 up; the file is reopened between rotations.
FsWithFiles(present) ==
    [FsInit EXCEPT
        !.dir = [n \in FileNames |-> IF n[2] \in present THEN 3 + n[2] ELSE 0],
        !.data = [i \in Inodes |->
                    IF i - 3 \in present
                    THEN <<[lvl |-> Info, bytes |-> i, lines |-> <<>>]>> ELSE <<>>],
        !.nextIno = 3 + MaxIdx]

InitRot ==
    /\ global = NULL
    /\ heap = [id \in LoggerIds |-> "free"]
    /\ L = [id \in LoggerIds |-> NoLogger]
    /\ \E present \in SUBSET (0 .. MaxIdx) : fs = FsWithFiles(present)
    /\ pc = [t \in Threads |-> IF t \in FlushTasks THEN "unspawned" ELSE "off"]
    /\ loc = [t \in Threads |-> NoLocals]
    /\ world = [cfgs |-> {}, levels |-> {Info}, budget |-> MaxProduce,
                tty |-> FALSE, faults |-> 0, calls |-> {PlainCall}]
    /\ hist = NoHist

NextRot == X_Rotate \/ X_Reopen

SpecRot == InitRot /\ [][NextRot]_vars

\* SpecDrain: two threads log one record each to the file "x" before the
\* event loop runs (ring of one cell, batches of one record), and a third
\* calls shutdown(); the thread inside shutdown() keeps being scheduled.
DrainCfgs == {MkCfg(InfoToX, 1, 1, 0, 3, TRUE, FALSE)}

InitDrain == InitWith({"i1", "p1", "p2", "s1"}, DrainCfgs, {Info}, 1, FALSE, 0)

NextDrain ==
    \/ \E c \in InitCallers : I_Load(c)
    \/ \E c \in InitCallers : I_Construct(c)
    \/ \E c \in InitCallers : I_Store(c)
    \/ \E p \in Producers : P_Load(p)
    \/ \E p \in Producers : P_Check(p)
    \/ \E p \in Producers : P_Enqueue(p)
    \/ \E p \in Producers : P_Metric(p)
    \/ \E p \in Producers : P_FbEnqueue(p)
    \/ \E p \in Producers : P_FlushCheck(p)
    \/ \E t \in Threads : F_DeqMpmc(t)
    \/ \E t \in Threads : F_DeqFallback(t)
    \/ \E t \in Threads : F_Rotate(t)
    \/ \E t \in Threads : F_Write(t)
    \/ \E t \in Threads : F_Count(t)
    \/ \E t \in Threads : F_Return(t)
    \/ \E s \in Stoppers : S_Load(s)
    \/ \E s \in Stoppers : S_SetFlag(s)
    \/ \E s \in Stoppers : S_EmptyMpmc(s)
    \/ \E s \in Stoppers : S_EmptyFallback(s)
    \/ \E s \in Stoppers : S_Close(s)
    \/ \E s \in Stoppers : S_Clear(s)
    \/ \E s \in Stoppers : S_Delete(s)

\* a step of the thread that is inside shutdown_internal
ShutdownStep ==
    \E s \in Stoppers :
        \/ S_SetFlag(s) \/ S_EmptyMpmc(s) \/ S_EmptyFallback(s)
        \/ S_Close(s) \/ S_Clear(s) \/ S_Delete(s)
        \/ F_DeqMpmc(s) \/ F_DeqFallback(s) \/ F_Rotate(s)
        \/ F_Write(s) \/ F_Count(s) \/ F_Return(s)

SpecDrain == InitDrain /\ [][NextDrain]_vars /\ WF_vars(ShutdownStep)

\* ================================================================= claims
\* how often record e appears in the per-level outputs taken together
RECURSIVE CountIn(_, _)
CountIn(e, seq) ==
    IF seq = <<>> THEN 0
    ELSE (IF Head(seq) = e THEN 1 ELSE 0) + CountIn(e, Tail(seq))

RECURSIVE Occurrences(_, _)
Occurrences(e, l) ==
    IF l >= LEVEL_COUNT THEN 0
    ELSE CountIn(e, hist.out[l]) + Occurrences(e, l + 1)

Flushing == {t \in Threads : pc[t] \in FlushPcs}

\* C1: when every produce call completed before shutdown() was called and no
\* write failed or fell short, then once shutdown() has returned every
\* record a produce call enqueued appears exactly once in the outputs.
C1_ExactlyOnce ==
    (hist.sd_returned /\ ~hist.overlap /\ ~hist.wfail)
        => \A n \in hist.enq : Occurrences(n.e, 0) = 1

\* C2: two records produced by the same thread at the same level appear in
\* that level's output in the order they were produced; stated for the runs
\* in which the one flush task made every write.
C2_PerProducerOrder ==
    (\A x \in hist.io : x[2] = "write" => x[1] = "t1")
        => \A l \in Levels : \A i, j \in 1 .. Len(hist.out[l]) :
              (i < j /\ hist.out[l][i].tid = hist.out[l][j].tid)
                  => hist.out[l][i].seq < hist.out[l][j].seq

\* C3: when shutdown() returns, every record enqueued before the shutdown
\* flag was set has been handed to a write, and the MPMC ring and the
\* fallback queue are both empty.
C3_ShutdownDrain ==
    hist.at_return.returned
        => /\ hist.at_return.unhanded = {}
           /\ hist.at_return.mpmc = 0
           /\ hist.at_return.fallback = 0

\* C4: no record enters the MPMC ring or the fallback queue after the store
\* that sets the shutdown flag, and no produce call touches a destroyed
\* Logger.
C4_NoEnqueueAfterFlag ==
    /\ \A n \in hist.enq : ~n.after_flag
    /\ hist.uaf \cap Producers = {}

\* C5: at most one thread is executing flush_once_batch, counting the flush
\* task, the shutdown drain loop and the producers' inline flushes.
C5_OneFlusher == Cardinality(Flushing) <= 1

\* C6: no produce call performs write, fsync, open, close, rename or unlink
\* on a sink, or rotates a file.
C6_NoProducerIO == \A x \in hist.io : x[1] \notin Producers

\* C7: at most one Logger is ever published (no shutdown happens in
\* SpecInit), no store replaces a published singleton, and an init call
\* that found the singleton set constructs nothing.
C7_InitIdempotent ==
    /\ Len(hist.published) <= 1
    /\ ~hist.overwrote
    /\ \A c \in hist.saw_set : loc[c].lg = NULL

\* C8: at most one flush task has been spawned, and an ulog::init call that
\* found the singleton set spawns none.
C8_OneFlushTask ==
    /\ hist.spawned <= 1
    /\ \A c \in hist.saw_set : pc[TaskOf(c)] = "unspawned"

\* C9: a produce call made while the singleton is absent returns at once:
\* nothing is queued or written and no Logger, sink, counter or file changes.
C9_AbsentNoOp ==
    [][\A p \in Producers :
          (pc[p] = "idle" /\ loc'[p].calls = loc[p].calls + 1 /\ global = NULL)
              => /\ pc'[p] = "idle"
                 /\ UNCHANGED <<global, heap, L, fs>>
                 /\ hist'.out = hist.out
                 /\ hist'.enq = hist.enq
                 /\ hist'.io = hist.io]_vars

\* a produce call found no singleton before init and another after shutdown,
\* with a record logged in between
C9_Witness ==
    /\ {"before_init", "after_return"} \subseteq hist.absent_calls
    /\ hist.at_return.returned
    /\ hist.enq # {}

\* the events of a flush_once_batch call's log that concern level j
EventsOf(t, op, j) ==
    {k \in 1 .. Len(loc[t].wlog) : loc[t].wlog[k].op = op /\ loc[t].wlog[k].lvl = j}

\* the files (inodes) that hold a record of the given staging buffer
FilesHolding(buf) ==
    {ino \in Inodes : \E k \in 1 .. Len(fs.data[ino]) :
        SeqToSet(fs.data[ino][k].lines) \cap {x.e : x \in SeqToSet(buf)} # {}}

\* C10: in every flush_once_batch call each level with a non-empty staging
\* buffer gets exactly one write call, for the whole buffer, after any
\* rotation of that level by the call; the buffer's records lie in one file.
C10_BatchAtomic ==
    \A t \in Threads : pc[t] \in {"f_rot", "f_write", "f_count", "f_ret"} =>
      \A j \in Levels :
        LET buf  == loc[t].bufs[j]
            W    == EventsOf(t, "write", j)
            R    == EventsOf(t, "rotate", j)
            done == \/ pc[t] = "f_ret"
                    \/ j < loc[t].lvl
                    \/ (pc[t] = "f_count" /\ j = loc[t].lvl)
        IN  IF buf = <<>> THEN W = {} /\ R = {}
            ELSE IF done
            THEN /\ Cardinality(W) = 1
                 /\ \A k \in W :
                      /\ loc[t].wlog[k].req = BufBytes(buf, L[loc[t].lg].json_mode)
                      /\ \A r \in R : r < k
                 /\ Cardinality(FilesHolding(buf)) <= 1
            ELSE W = {}

\* a call rotated the Info sink and then wrote a two-record buffer in full
C10_Witness ==
    \E t \in Threads :
        /\ pc[t] = "f_ret"
        /\ Len(loc[t].bufs[Info]) = 2
        /\ EventsOf(t, "rotate", Info) # {}
        /\ \E k \in EventsOf(t, "write", Info) : loc[t].wlog[k].ret = loc[t].wlog[k].req
        /\ Cardinality(FilesHolding(loc[t].bufs[Info])) = 1

\* C11: a maybe_rotate_sink call rotates the level's sink if and only if the
\* sink has a path, max_file_size_bytes > 0 and bytes_written + incoming >
\* max_file_size_bytes; at bytes_written + incoming = max_file_size_bytes it
\* does not rotate.
C11_RotationTrigger ==
    [][\A t \in Threads :
          (pc[t] = "f_rot" /\ pc'[t] = "f_write") =>
             LET lg == loc[t].lg
                 i  == loc[t].lvl
                 s  == L[lg].sinks[i]
                 sz == BufBytes(loc[t].bufs[i], L[lg].json_mode)
             IN  (hist'.rot[lg][i] = hist.rot[lg][i] + 1)
                    <=> /\ s.path # NoPath
                        /\ L[lg].max_file_size_bytes > 0
                        /\ s.bytes_written + sz > L[lg].max_file_size_bytes]_vars

\* C12: whenever no flush_once_batch call is in progress, each sink's
\* bytes_written equals the sum of the byte counts its writes returned since
\* its last rotation (since init if it never rotated); and a sink a call has
\* just rotated has bytes_written zero when the call writes to it.
C12_BytesWritten ==
    /\ Flushing = {} =>
          \A id \in LoggerIds : heap[id] = "live" =>
             \A l \in Levels : L[id].sinks[l].bytes_written = hist.wsum[id][l]
    /\ \A t \in Threads :
          (/\ pc[t] = "f_write"
           /\ loc[t].wlog # <<>>
           /\ loc[t].wlog[Len(loc[t].wlog)].op = "rotate"
           /\ loc[t].wlog[Len(loc[t].wlog)].lvl = loc[t].lvl)
              => L[loc[t].lg].sinks[loc[t].lvl].bytes_written = 0

\* rotations done so far by the sinks of Logger id configured with path P
RECURSIVE RotationsOf(_, _, _)
RotationsOf(id, P, l) ==
    IF l >= LEVEL_COUNT THEN 0
    ELSE (IF SinkPath(hist.cfg[id], l) = P THEN hist.rot[id][l] ELSE 0)
            + RotationsOf(id, P, l + 1)

\* C13: with max_file_size_bytes > 0 and max_files = K >= 1, no file P.K or
\* of a higher index exists for a sink path P, and once K-1 rotations of P
\* were done (every reopen succeeding) all of P, P.1, ..., P.(K-1) exist.
C13_MaxFiles ==
    \A id \in LoggerIds :
       (heap[id] = "live" /\ L[id].max_file_size_bytes > 0 /\ L[id].max_files >= 1) =>
          \A P \in Paths : (\E l \in Levels : SinkPath(hist.cfg[id], l) = P) =>
             LET K == L[id].max_files
             IN  /\ \A idx \in 0 .. MaxIdx : idx >= K => fs.dir[Name(P, idx)] = 0
                 /\ (RotationsOf(id, P, 0) >= K - 1 /\ hist.rotfail = {})
                       => \A idx \in 0 .. MaxIdx : idx < K => fs.dir[Name(P, idx)] # 0

\* the size of a file: the bytes its write calls returned
RECURSIVE ChunkBytes(_)
ChunkBytes(chunks) ==
    IF chunks = <<>> THEN 0 ELSE Head(chunks).bytes + ChunkBytes(Tail(chunks))

\* C14: with rotation enabled every file of a file-backed sink, P or a backup
\* P.i, has size at most max_file_size_bytes plus one batch (taken at its
\* largest: batch_size lines), whatever paths the levels are given.
C14_FileSizeBound ==
    \A id \in LoggerIds :
       (heap[id] = "live" /\ L[id].max_file_size_bytes > 0) =>
          \A n \in FileNames : fs.dir[n] # 0 =>
             ChunkBytes(fs.data[fs.dir[n]])
                <= L[id].max_file_size_bytes + L[id].batch_size * LineSz

\* C15: once a level with path P has rotated, each of its batches (the one
\* pending at the rotation and the later ones) is written to the file that
\* is named P at the time of the write, never to a backup P.i.
C15_WritesToFreshFile ==
    [][\A t \in Threads :
          (pc[t] = "f_write" /\ pc'[t] # "f_write") =>
             LET lg == loc[t].lg
                 i  == loc[t].lvl
                 s  == L[lg].sinks[i]
             IN  (s.path # NoPath /\ hist.rot[lg][i] >= 1)
                    => fs.fdtab[s.fd] = fs.dir[Name(s.path, 0)]]_vars

\* C16: the records of a level whose path is absent in the configuration are
\* written to standard output (fd 1) and to no file, whatever the paths of
\* the other levels: with info_path set and trace_path absent no Trace
\* record lands in the info file.
C16_AbsentPathToStdout ==
    \A id \in LoggerIds : heap[id] = "live" =>
       \A ino \in Inodes \ {1} : \A k \in 1 .. Len(fs.data[ino]) :
          SinkPath(hist.cfg[id], fs.data[ino][k].lvl) # NoPath

\* C17: when the reopen after a rotation fails, that sink gets handle 1, no
\* path and bytes_written zero while every other sink keeps its handle, path
\* and counter; afterwards the sink's path stays absent and it never rotates
\* again.
C17_RotateOpenFailure ==
    [][\A id \in LoggerIds : \A l \in Levels :
          /\ (<<id, l>> \notin hist.rotfail /\ <<id, l>> \in hist'.rotfail) =>
                /\ L'[id].sinks[l].fd = 1
                /\ L'[id].sinks[l].path = NoPath
                /\ L'[id].sinks[l].bytes_written = 0
                /\ \A j \in Levels \ {l} : L'[id].sinks[j] = L[id].sinks[j]
          /\ <<id, l>> \in hist.rotfail =>
                /\ L'[id].sinks[l].path = NoPath
                /\ hist'.rot[id][l] = hist.rot[id][l]]_vars

\* the Info sink lost its file at a rotation and has since taken two batches
\* on stdout without rotating, while the Error sink still has its file
C17_Witness ==
    \E id \in LoggerIds :
        /\ <<id, Info>> \in hist.rotfail
        /\ L[id].sinks[Info].fd = 1
        /\ L[id].sinks[Info].path = NoPath
        /\ hist.wsum[id][Info] >= 2 * LineSz
        /\ L[id].sinks[Error].path = "x"
        /\ L[id].sinks[Error].fd > 2

\* every level a flush_once_batch call staged records for has had its write
AllLevelsWritten(t) ==
    \A j \in Levels : loc[t].bufs[j] # <<>> => EventsOf(t, "write", j) # {}

\* C18: a write that returns fewer bytes than requested makes bytes_written
\* grow by exactly the returned count, a write that fails leaves it
\* unchanged; no record is handed to a second write, and the call goes on
\* to write the remaining levels before it returns.
C18_WriteErrors ==
    [][\A t \in Threads :
          LET lg == loc[t].lg
              i  == loc[t].lvl
          IN  /\ (pc[t] = "f_write" /\ pc'[t] # "f_write") =>
                    /\ {x.e : x \in SeqToSet(loc[t].bufs[i])} \cap hist.handed = {}
                    /\ loc'[t].wr <= 0 =>
                          /\ pc'[t] # "f_count"
                          /\ L'[lg].sinks[i].bytes_written = L[lg].sinks[i].bytes_written
                    /\ pc'[t] = "f_ret" => AllLevelsWritten(t)'
              /\ (pc[t] = "f_count" /\ pc'[t] # "f_count") =>
                    /\ loc[t].wr < loc[t].wlog[Len(loc[t].wlog)].req =>
                          L'[lg].sinks[i].bytes_written
                             = L[lg].sinks[i].bytes_written + loc[t].wr
                    /\ pc'[t] = "f_ret" => AllLevelsWritten(t)']_vars

\* C19: an init call whose queue_capacity is above 20 publishes no
\* singleton, and the produce calls that follow it queue and write nothing.
C19_CapacityRejected ==
    /\ global # NULL => hist.cfg[global].queue_capacity <= 20
    /\ (\A id \in LoggerIds : heap[id] # "free" => hist.cfg[id].queue_capacity > 20)
          => (hist.enq = {} /\ hist.io = {})

\* C20: the Logger's batch size is cfg.batch_size clamped to [1, 4096] (0
\* becomes 1, more than 4096 becomes 4096), and no flush_once_batch call
\* holds more records, taken from the MPMC ring and the fallback queue
\* together, than that.
C20_BatchClamp ==
    \A id \in LoggerIds : heap[id] # "free" =>
       LET bs  == hist.cfg[id].batch_size
           eff == L[id].batch_size
       IN  /\ eff >= 1 /\ eff <= 4096
           /\ (bs >= 1 /\ bs <= 4096) => eff = bs
           /\ bs = 0 => eff = 1
           /\ bs > 4096 => eff = 4096
           /\ \A t \in Threads :
                 (pc[t] \in FlushPcs /\ loc[t].lg = id) => Len(loc[t].tmp) <= eff

\* with batch_size 0 a call took its one record and left another one queued
C20_Witness ==
    \E t \in Threads :
        /\ pc[t] \in FlushPcs
        /\ loc[t].lg # NULL
        /\ hist.cfg[loc[t].lg].batch_size = 0
        /\ L[loc[t].lg].batch_size = 1
        /\ Len(loc[t].tmp) = 1
        /\ L[loc[t].lg].queue \o L[loc[t].lg].fallback_queue # <<>>

\* the number of continuation bytes the lead byte c announces, -1 for a byte
\* that cannot start a code point
Utf8Need(c) ==
    IF c < 128 THEN 0
    ELSE IF c >= 192 /\ c <= 223 THEN 1
    ELSE IF c >= 224 /\ c <= 239 THEN 2
    ELSE IF c >= 240 /\ c <= 247 THEN 3
    ELSE -1

RECURSIVE ValidUtf8Bytes(_)
ValidUtf8Bytes(b) ==
    IF b = <<>> THEN TRUE
    ELSE LET n == Utf8Need(Head(b))
         IN  /\ n >= 0
             /\ Len(b) >= n + 1
             /\ \A k \in 2 .. (n + 1) : b[k] >= 128 /\ b[k] <= 191
             /\ ValidUtf8Bytes(SubSeq(b, n + 2, Len(b)))

ValidUtf8(m) == ValidUtf8Bytes(m.b)

\* m is the first StrLen(m) bytes of r
IsPrefixStr(m, r) ==
    /\ m.pad <= r.pad
    /\ m.pad < r.pad => m.b = <<>>
    /\ m.pad = r.pad => (Len(m.b) <= Len(r.b) /\ m.b = SubSeq(r.b, 1, Len(m.b)))

\* offset n of the valid text r lies between two code points
OnBoundary(r, n) ==
    n = StrLen(r) \/ ~(ByteAt(r, n) >= 128 /\ ByteAt(r, n) <= 191)

\* the records produce calls have put into the MPMC ring or the fallback queue
Enqueued == {n.e : n \in hist.enq}

\* C21: for every rendered message that is valid UTF-8 the message stored in
\* the record is a prefix of it that ends on a code-point boundary, is valid
\* UTF-8 and has at most MAX_LINE = 64 KiB bytes.
C21_Utf8SafeTruncation ==
    \A p \in Producers :
       (loc[p].entry \in Enqueued /\ ValidUtf8(loc[p].msg)) =>
          LET r == loc[p].msg
              m == loc[p].entry.msg
          IN  /\ IsPrefixStr(m, r)
              /\ OnBoundary(r, StrLen(m))
              /\ ValidUtf8(m)
              /\ StrLen(m) <= 65536

\* C22: a rendered message of at most MAX_LINE bytes that is valid UTF-8 is
\* stored in the record unchanged, byte for byte.
C22_NoTruncationWithinLimit ==
    \A p \in Producers :
       (loc[p].entry \in Enqueued /\ ValidUtf8(loc[p].msg) /\ StrLen(loc[p].msg) <= 65536)
          => loc[p].entry.msg = loc[p].msg

\* an ANSI color sequence is among the bytes of an emitted line
HasColor(x) == ESC \in (SeqToSet(x.head) \cup SeqToSet(x.tail))

\* C23: in text mode a record is written with ANSI color sequences around
\* it only if the handle of its sink is a terminal and enable_color_stdout
\* is true, also after rotations and after a rotation whose reopen failed
\* and left the sink on stdout.
C23_ColorOnlyOnTty ==
    [][\A t \in Threads :
          (pc[t] = "f_write" /\ pc'[t] # "f_write" /\ ~L[loc[t].lg].json_mode) =>
             LET lg == loc[t].lg
                 i  == loc[t].lvl
                 s  == L[lg].sinks[i]
             IN  \A k \in 1 .. Len(loc[t].bufs[i]) :
                    HasColor(EmitLine(loc[t].bufs[i][k], FALSE))
                       => (IsAtty(s.fd) /\ hist.cfg[lg].enable_color_stdout)]_vars

\* reading a msg field back: a backslash and the byte after it stand for one
\* byte of the message
RECURSIVE JsonUnescape(_)
JsonUnescape(f) ==
    IF f = <<>> THEN <<>>
    ELSE IF Head(f) = 92 /\ Len(f) >= 2
    THEN LET c == f[2]
         IN  <<IF c = 110 THEN 10 ELSE IF c = 114 THEN 13 ELSE IF c = 116 THEN 9 ELSE c>>
                \o JsonUnescape(SubSeq(f, 3, Len(f)))
    ELSE <<Head(f)>> \o JsonUnescape(Tail(f))

\* a msg field is made of the escapes \" \\ \n \r \t and of single bytes
\* other than the double quote, LF, CR and TAB
RECURSIVE WellEscaped(_)
WellEscaped(f) ==
    IF f = <<>> THEN TRUE
    ELSE IF Head(f) = 92
    THEN Len(f) >= 2 /\ f[2] \in {34, 92, 110, 114, 116} /\ WellEscaped(SubSeq(f, 3, Len(f)))
    ELSE Head(f) \notin {34, 10, 13, 9} /\ WellEscaped(Tail(f))

\* the number of bytes of a message that are written as two bytes
RECURSIVE EscapedCount(_)
EscapedCount(b) ==
    IF b = <<>> THEN 0
    ELSE (IF Head(b) \in {34, 92, 10, 13, 9} THEN 1 ELSE 0) + EscapedCount(Tail(b))

\* C24: in JSON mode every record is emitted as one line: in the msg field
\* each double quote and backslash has a backslash before it, LF, CR and TAB
\* are written \n, \r, \t and every other byte is copied, so the line has no
\* raw line feed but its last byte; and the line has no ANSI color sequence
\* whatever the color flag of the sink.
C24_JsonOneLine ==
    \A t \in Threads :
       (pc[t] \in {"f_rot", "f_write", "f_count", "f_ret"} /\ L[loc[t].lg].json_mode) =>
          \A j \in Levels : \A k \in 1 .. Len(loc[t].bufs[j]) :
             LET x == EmitLine(loc[t].bufs[j][k], L[loc[t].lg].json_mode)
                 m == loc[t].bufs[j][k].e.msg
                 n == Len(x.tail)
                 f == SubSeq(x.tail, 1, n - 3)
             IN  /\ n >= 3
                 /\ SubSeq(x.tail, n - 2, n) = <<34, 125, 10>>
                 /\ x.pad = m.pad
                 /\ WellEscaped(f)
                 /\ JsonUnescape(f) = m.b
                 /\ Len(f) = Len(m.b) + EscapedCount(m.b)
                 /\ 10 \notin (SeqToSet(x.head) \cup SeqToSet(f))
                 /\ 27 \notin (SeqToSet(x.head) \cup SeqToSet(x.tail))

\* the record a"b<LF>c<TAB>d has been written in JSON mode by a sink whose
\* color flag is set
C24_Witness ==
    /\ \E k \in 1 .. Len(hist.out[Info]) : hist.out[Info][k].msg.b = JsonScenarioText
    /\ \E id \in LoggerIds :
          heap[id] = "live" /\ L[id].json_mode /\ L[id].sinks[Info].color_enabled

\* The formatter's contract, on a template given as its pieces: a piece is a
\* literal byte, the escape {{, an implicit placeholder {} or an explicit
\* placeholder {N}.
TokLit(c) == [k |-> "lit", n |-> c]
TokEsc    == [k |-> "esc", n |-> 0]
TokImp    == [k |-> "imp", n |-> 0]
TokExp(i) == [k |-> "exp", n |-> i]

\* the text of a template
RECURSIVE TemplateText(_)
TemplateText(toks) ==
    IF toks = <<>> THEN <<>>
    ELSE LET h == Head(toks)
         IN  (CASE h.k = "lit" -> <<h.n>>
                [] h.k = "esc" -> <<123, 123>>
                [] h.k = "imp" -> <<123, 125>>
                [] h.k = "exp" -> <<123, 48 + h.n, 125>>)
                \o TemplateText(Tail(toks))

\* every placeholder of the template names an argument that was passed,
\* seq being the sequence counter
RECURSIVE Resolves(_, _, _)
Resolves(toks, args, seq) ==
    IF toks = <<>> THEN TRUE
    ELSE LET h == Head(toks)
         IN  CASE h.k = "imp" -> seq < Len(args) /\ Resolves(Tail(toks), args, seq + 1)
               [] h.k = "exp" -> h.n < Len(args) /\ Resolves(Tail(toks), args, seq)
               [] OTHER       -> Resolves(Tail(toks), args, seq)

\* what the template renders to: {{ gives one {, {} the argument at the
\* sequence counter, which then advances, {N} argument N
RECURSIVE Rendering(_, _, _)
Rendering(toks, args, seq) ==
    IF toks = <<>> THEN <<>>
    ELSE LET h == Head(toks)
         IN  CASE h.k = "lit" -> <<h.n>> \o Rendering(Tail(toks), args, seq)
               [] h.k = "esc" -> <<123>> \o Rendering(Tail(toks), args, seq)
               [] h.k = "imp" -> args[seq + 1] \o Rendering(Tail(toks), args, seq + 1)
               [] h.k = "exp" -> args[h.n + 1] \o Rendering(Tail(toks), args, seq)

TokSeqs(T) ==
    {<<>>} \cup {<<a>> : a \in T} \cup {<<a, b>> : a \in T, b \in T}
        \cup {<<a, b, c>> : a \in T, b \in T, c \in T}

\* C25: {{ in a template renders as one { and consumes no argument, for
\* every template and every number of arguments passed, none included (the
\* placeholders of the template naming arguments that were passed).
C25_BraceEscape ==
    \A p \in Producers : loc[p].entry \in Enqueued =>
       \A toks \in TokSeqs({TokLit(120), TokLit(32), TokEsc, TokImp, TokExp(0), TokExp(1)}) :
          (/\ TemplateText(toks) = loc[p].call.fmt.b
           /\ \E k \in 1 .. Len(toks) : toks[k] = TokEsc
           /\ Resolves(toks, loc[p].call.args, 0))
              => loc[p].msg.b = Rendering(toks, loc[p].call.args, 0)

\* C26: the template x={{}} with one argument renders to exactly x={}.
C26_BraceScenario ==
    \A p \in Producers :
       (/\ loc[p].entry \in Enqueued
        /\ loc[p].call.fmt.b = <<120, 61, 123, 123, 125, 125>>
        /\ Len(loc[p].call.args) = 1)
          => loc[p].msg.b = <<120, 61, 123, 125>>

\* C27: each {} renders the argument at the sequence counter and advances
\* the counter, each {N} renders argument N and leaves the counter as it is;
\* {1} {0} with the arguments (b, a) renders "a b" and {1} {} renders
\* argument 1, a space and argument 0.
C27_Placeholders ==
    \A p \in Producers : loc[p].call # NoCall =>
       /\ \A toks \in TokSeqs({TokLit(120), TokLit(32), TokImp, TokExp(0), TokExp(1)}) :
             (/\ TemplateText(toks) = loc[p].call.fmt.b
              /\ \E k \in 1 .. Len(toks) : toks[k].k \in {"imp", "exp"}
              /\ Resolves(toks, loc[p].call.args, 0))
                 => loc[p].msg.b = Rendering(toks, loc[p].call.args, 0)
       /\ (loc[p].call.fmt.b = <<123, 49, 125, 32, 123, 48, 125>> /\ loc[p].call.args = <<<<98>>, <<97>>>>)
             => loc[p].msg.b = <<97, 32, 98>>
       /\ (loc[p].call.fmt.b = <<123, 49, 125, 32, 123, 125>> /\ Len(loc[p].call.args) = 2)
             => loc[p].msg.b = loc[p].call.args[2] \o <<32>> \o loc[p].call.args[1]

\* the record of the call trace("{1} {0}", "b", "a") has been written, and
\* it reads "a b"
C27_Witness ==
    \E p \in Producers :
        /\ loc[p].call.fmt.b = <<123, 49, 125, 32, 123, 48, 125>>
        /\ loc[p].call.args = <<<<98>>, <<97>>>>
        /\ \E k \in 1 .. Len(hist.out[Info]) : hist.out[Info][k].msg.b = <<97, 32, 98>>

\* the produce calls that are between a refused try_enqueue and the append
\* to the fallback queue
MidOverflow == {p \in Producers : pc[p] \in {"p_metric", "p_fb"}}

\* the records appended to the fallback queue so far
FallbackAppends == {n \in hist.enq : n.via = "fallback"}

RECURSIVE NoDuplicates(_)
NoDuplicates(q) ==
    IF q = <<>> THEN TRUE
    ELSE Head(q) \notin SeqToSet(Tail(q)) /\ NoDuplicates(Tail(q))

\* C29: shutdown fsyncs each distinct sink handle exactly once and closes
\* each distinct handle other than 1 and 2 exactly once: no handle is closed
\* a second time (each close finds its handle open), also when levels share
\* it, 1 and 2 are never closed, and a second shutdown() call that follows
\* the first closes nothing.
C29_CloseOnce ==
    [][/\ \A s \in Stoppers : (pc[s] = "s_close" /\ pc'[s] = "s_clear") =>
             LET fds == {L[loc[s].lg].sinks[l].fd : l \in Levels}
                 cl  == [k \in 1 .. Len(hist'.closed) |-> hist'.closed[k].fd]
             IN  /\ NoDuplicates(hist'.fsynced)
                 /\ SeqToSet(hist'.fsynced) = fds
                 /\ NoDuplicates(cl)
                 /\ SeqToSet(cl) = fds \ {1, 2}
                 /\ \A k \in 1 .. Len(hist'.closed) : hist'.closed[k].open
                 /\ fs'.fdtab[1] # 0 /\ fs'.fdtab[2] # 0
       /\ \A s \in Stoppers : (hist.sd_count = 2 /\ hist.fsynced # <<>> /\ pc'[s] # pc[s]) =>
             /\ fs' = fs
             /\ hist'.closed = hist.closed
             /\ hist'.fsynced = hist.fsynced]_vars

ViaMpmc(p) == \E n \in hist.enq : n.e = loc[p].entry /\ n.via = "mpmc"

\* C31: a produce call whose try_enqueue succeeded never acquires
\* fallback_mutex_, whatever the state of the logger: a producer locks the
\* mutex (for its fallback_queue_.enqueue or for the top-up of a
\* flush_once_batch it runs inline) only in a call whose record the MPMC
\* ring refused.
C31_FastPathNoMutex ==
    [][\A p \in Producers :
          (pc[p] \in {"p_fb", "f_fb"} /\ pc'[p] # pc[p]) => ~ViaMpmc(p)]_vars

\* C32: a successful try_pop followed by rollback_last_pop and
\* overwrite_last_rollback of the popped record leaves the ring as it was
\* before the try_pop (head, tail and the stored records in their order), for
\* every head position, and the next try_pop returns the same record.
C32_RingRollback ==
    [][\A p \in Producers :
          (pc[p] = "r_popped" /\ pc'[p] = "idle" /\ loc'[p].popped # NoEntry) =>
             /\ loc'[p].overflow.head = hist.ring_before.head
             /\ loc'[p].overflow.tail = hist.ring_before.tail
             /\ loc'[p].overflow = hist.ring_before
             /\ RingRecords(loc'[p].overflow) = RingRecords(hist.ring_before)
             /\ TryPop(loc'[p].overflow).ok
             /\ TryPop(loc'[p].overflow).out = loc[p].popped]_vars

\* a pop at the last index moved the head to index 0, the rollback brought it
\* back to the last index, and the ring holds two records
C32_Witness ==
    /\ pc["p1"] = "idle"
    /\ loc["p1"].popped # NoEntry
    /\ hist.ring_before.head = OverflowN - 1
    /\ loc["p1"].overflow = hist.ring_before
    /\ Len(RingRecords(loc["p1"].overflow)) = 2
    /\ RingRecords(loc["p1"].overflow)[1] = loc["p1"].popped

\* C33: in the overflow-ring variant, when shutdown() has returned every
\* record that was pushed into a thread's overflow ring before shutdown() was
\* called has been moved into the MPMC ring and handed to a write, exactly
\* once, also when the owning thread made no further produce call.
C33_OverflowRingDrained ==
    hist.at_return.returned =>
        /\ hist.at_return.unhanded = {}
        /\ \A e \in hist.at_flag : Occurrences(e, 0) = 1

\* C34: in the overflow-ring variant no record enters the MPMC ring while an
\* older record of the same thread is held in that thread's overflow ring.
C34_OverflowRingOrder ==
    [][\A p \in Producers :
          (/\ pc[p] \in {"o_enq", "o_spin", "o_denq"}
           /\ Len(L'[loc[p].lg].queue) > Len(L[loc[p].lg].queue)) =>
             LET q == L'[loc[p].lg].queue
                 e == q[Len(q)]
             IN  \A r \in SeqToSet(RingRecords(loc'[p].overflow)) : r.seq > e.seq]_vars

C37_HandlesOpen ==
    (global # NULL /\ ~L[global].shutting_down) =>
        \A i \in Levels :
            LET fd == L[global].sinks[i].fd
            IN  fd = 1 \/ (fd \in Fds /\ fs.fdtab[fd] # 0)

\* C38: once shutdown() has returned, no flush task starts a flush_once_batch
\* on, or reads flush_interval_ns from, the Logger that shutdown() deleted.
C38_TaskLeavesDestroyedLogger ==
    [][\A t \in FlushTasks :
          (/\ hist.at_return.returned
           /\ pc[t] \in {"f_deq", "t_sleep"}
           /\ loc[t].lg # NULL
           /\ heap[loc[t].lg] = "deleted")
             => pc'[t] = pc[t]]_vars

\* C39: a shutdown() that found the singleton returns: each flush_once_batch
\* of its drain loop takes at least one record from the MPMC ring when the
\* ring is non-empty, and from the fallback queue when it found the ring
\* empty and the fallback queue is non-empty; the loop is left, and the
\* sinks' descriptors have then been through the close loop.
C39_ShutdownTerminates ==
    /\ [][\A s \in Stoppers :
             LET lg == loc[s].lg
             IN  /\ (pc[s] = "f_deq" /\ pc'[s] # pc[s] /\ L[lg].queue # <<>>)
                       => Len(L'[lg].queue) < Len(L[lg].queue)
                 /\ (pc[s] = "f_fb" /\ pc'[s] # pc[s] /\ loc[s].tmp = <<>>
                       /\ L[lg].fallback_queue # <<>>)
                       => Len(L'[lg].fallback_queue) < Len(L[lg].fallback_queue)]_vars
    /\ \A s \in Stoppers :
          (pc[s] = "s_flag") ~> (pc[s] = "done" /\ <<s, "close">> \in hist.io)

\* shutdown() has returned after its drain loop took a record from the ring
\* and one from the fallback queue, with no produce call in flight
C39_Witness ==
    /\ pc["s1"] = "done"
    /\ <<"s1", "close">> \in hist.io
    /\ ~hist.overlap
    /\ \E n \in hist.enq : n.via = "fallback"
    /\ \E n \in hist.enq : n.via = "mpmc"
    /\ hist.at_return.unhanded = {}
    /\ Cardinality(hist.handed) = 2

\* C40: for the rendered message s of every produce call and every limit m
\* (0, the lengths around the end of s, kMaxLogLineBytes), r =
\* utf8_safe_size(s, len, m) satisfies utf8_safe_size(s, r, m) = r,
\* r <= min(len, m) and r = 0 only when min(len, m) = 0; the message stored
\* after pushf's and enqueue_with_overflow's two applications is the first r
\* bytes of s for m = kMaxLogLineBytes.
MsgLimits(s) ==
    {0, kMaxLogLineBytes} \cup {k \in StrLen(s) - 8 .. StrLen(s) + 1 : k >= 0}

C40_Utf8SafeSizeIdempotent ==
    \A p \in Producers :
        LET s == loc[p].msg
        IN  /\ \A m \in MsgLimits(s) :
                  LET r == Utf8SafeSize(s, StrLen(s), m)
                  IN  /\ Utf8SafeSize(s, r, m) = r
                      /\ Utf8SafeSize(Assign(s, r), r, m) = r
                      /\ r <= Min(StrLen(s), m)
                      /\ (r = 0) <=> (Min(StrLen(s), m) = 0)
            /\ loc[p].calls > 0 =>
                  loc[p].entry.msg =
                      Assign(s, Utf8SafeSize(s, StrLen(s), kMaxLogLineBytes))

\* a message longer than the limit whose cut falls inside a multi-byte
\* sequence has been stored, shortened below the limit, and written
C40_Witness ==
    /\ pc["p1"] = "idle"
    /\ loc["p1"].calls = 1
    /\ StrLen(loc["p1"].msg) > kMaxLogLineBytes
    /\ StrLen(loc["p1"].entry.msg) < kMaxLogLineBytes
    /\ StrLen(loc["p1"].entry.msg) =
          Utf8SafeSize(loc["p1"].msg, StrLen(loc["p1"].msg), kMaxLogLineBytes)
    /\ loc["p1"].entry \in hist.handed

====
